---- MODULE Spec2Model ----
(***************************************************************************)
(* Boomie: a text-driven synthesizer.  This module models                  *)
(*   - the realtime player of src/src/engine.rs (SynthEngine: the playback *)
(*     context behind its mutex, the control calls and the audio callback), *)
(*   - the offline renderer of src/src/engine.rs                            *)
(*     (synthesize_arrangement_private / synthesize_track_into).            *)
(*                                                                         *)
(* Numbers.  f32 times, volumes and pitches are rationals [n |-> , d |-> ] *)
(* with d > 0, taken from values on which the f32 arithmetic of the code   *)
(* is exact.  `x as usize` is the floor of a non-negative rational.  The   *)
(* one f32 that the code uses as a counter (CrossfadeState.progress) keeps *)
(* its 24-bit significand: see F32Inc.                                     *)
(*                                                                         *)
(* Option<T> is a sequence of length 0 (None) or 1 (Some(v) = <<v>>).      *)
(* HashMap<String, V> is a function whose DOMAIN is the set of keys.       *)
(***************************************************************************)
EXTENDS Integers, Sequences, FiniteSets, TLC

VARIABLES
    sample_rate,        \* SynthEngine.sample_rate (engine.rs:60), fixed by new()
    playback_context,   \* SynthEngine.playback_context (engine.rs:61): Option<PlaybackContext>
    stream,             \* SynthEngine.stream (engine.rs:62): TRUE iff Some(stream)
    open_streams,       \* output streams alive on the device (built and not yet dropped)
    cb_len,             \* frames of the buffer the callback is filling; 0 = callback not running
    data,               \* the callback's buffer: the frames written so far (engine.rs:254)
    last_call,          \* history: the control call that produced this state, else None
    rstate,             \* the offline renderer's position and buffers (engine.rs:470-557)
    nbuf,               \* a sample buffer at the renderer's normalisation (engine.rs:551-554)
    bmi,                \* Arrangement::from_bmi at work: the arrangement built so far (arrangement.rs:31)
    fx,                 \* an EffectsProcessor (effects.rs:96-104) with the chain and the signal it is run on
    env,                \* a call of calculate_envelope_static (engine.rs:699): its arguments and its result
    th,                 \* the control thread and the callback thread at the context mutex (engine.rs:59, 254)
    gain                \* a placed track's volumes and the gain each renderer gives its notes (engine.rs:416, 491)

vars == <<sample_rate, playback_context, stream, open_streams, cb_len, data,
          last_call, rstate, nbuf, bmi, fx, env, th, gain>>

\* the state of the parts that are exercised on their own
lib_vars == <<nbuf, bmi, fx, env, th, gain>>

engine_vars == <<sample_rate, playback_context, stream, open_streams, cb_len,
                 data, last_call>>

----------------------------------------------------------------------------
(* Option and rational helpers *)

None == <<>>

Some(v) == <<v>>

R(n, d) == [n |-> n, d |-> d]

RLeq(a, b) == a.n * b.d <= b.n * a.d

RLt(a, b) == a.n * b.d < b.n * a.d

RMax(a, b) == IF RLeq(a, b) THEN b ELSE a

RMin(a, b) == IF RLeq(a, b) THEN a ELSE b

\* (t * k) as usize, for a rational t >= 0 and an integer k >= 0
FloorMul(t, k) == (t.n * k) \div t.d

RECURSIVE Gcd(_, _)
Gcd(a, b) == IF b = 0 THEN a ELSE Gcd(b, a % b)

\* a + b in lowest terms (f32 `+` on values where it is exact); the bound
\* variables x and y hold the values of a and b, each evaluated once
RAdd(a, b) ==
    CHOOSE r \in {LET c == Gcd(x.d, y.d)
                      n == x.n * (y.d \div c) + y.n * (x.d \div c)
                      d == (x.d \div c) * y.d
                      g == Gcd(n, d)
                  IN  R(n \div g, d \div g) : x \in {a}, y \in {b}} : TRUE

----------------------------------------------------------------------------
(* f32: CrossfadeState.progress is an f32 that counts frames (engine.rs:52,   *)
(* 288); usize values are converted with `as f32` (engine.rs:278, 291, 302). *)

\* f32 has a 24-bit significand: every integer up to 2^24 is an f32
F32Exact == 16777216

\* n as f32, for an integer 0 <= n < 2^25: round to nearest, ties to even
UsizeAsF32(n) ==
    IF n <= F32Exact \/ n % 2 = 0 THEN n
    ELSE IF (n + 1) % 4 = 0 THEN n + 1 ELSE n - 1

\* p + 1.0 in f32, for an integer-valued p: the sum is rounded to an f32
F32Inc(p) == UsizeAsF32(p + 1)

\* a / b in f32 for integer-valued operands, kept as the fraction a/b.
\* 0.0 / 0.0 is NaN: the fraction with n = 0 and d = 0.
F32Div(a, b) == R(a, b)

IsNaN(t) == t.n = 0 /\ t.d = 0

----------------------------------------------------------------------------
(* The score data model: instrument.rs, track.rs, arrangement.rs *)

\* SequenceElement (instrument.rs:67-73); a duration is in beats
Note(duration) == [kind |-> "Note", duration |-> duration, npitches |-> 1]

Chord(npitches, duration) ==
    [kind |-> "Chord", duration |-> duration, npitches |-> npitches]

Rest(duration) == [kind |-> "Rest", duration |-> duration, npitches |-> 0]

\* MelodyTrack.length as from_mel accumulates it: the sum of the elements'
\* durations, in beats (track.rs:113, 135, 142)
RECURSIVE SumDurations(_)
SumDurations(sequence) ==
    IF sequence = <<>> THEN R(0, 1)
    ELSE RAdd(sequence[1].duration, SumDurations(Tail(sequence)))

\* InstrumentSource (instrument.rs:11-15): Synthesized(waveform), or
\* Sample(data) with data.samples.len() = sample_len
Synthesized == [kind |-> "Synthesized", sample_len |-> 0]

Sample(sample_len) == [kind |-> "Sample", sample_len |-> sample_len]

\* MelodyTrack (track.rs:15-24) with the instrument fields the engine reads
MelodyTrack(name, source, pitch, tempo, sequence) ==
    [name |-> name, source |-> source, pitch |-> pitch, tempo |-> tempo,
     sequence |-> sequence, length |-> SumDurations(sequence)]

\* TrackOverrides::default() (arrangement.rs:6-16): every override absent
NoOverrides == [volume |-> None, pitch |-> None, tempo |-> None]

\* one entry of Arrangement.tracks (arrangement.rs:21)
Placed(track, start_time) ==
    [track |-> track, start_time |-> start_time, overrides |-> NoOverrides]

\* Arrangement.total_length as from_bmi computes it while it places the
\* tracks: the largest start_time + track.length (arrangement.rs:153-157)
RECURSIVE TotalLength(_)
TotalLength(tracks) ==
    IF tracks = <<>> THEN R(0, 1)
    ELSE LET rest == TotalLength(Tail(tracks))
             end_time == RAdd(tracks[1].start_time, tracks[1].track.length)
         IN  IF RLt(rest, end_time) THEN end_time ELSE rest

\* Arrangement (arrangement.rs:19-27); no fades, no master tempo
Arrangement(name, tracks, loop_point) ==
    [name |-> name, tracks |-> tracks, total_length |-> TotalLength(tracks),
     loop_point |-> loop_point, master_tempo |-> None, fade_in |-> None,
     fade_out |-> None]

\* LoopPoint (track.rs:9-12), in seconds
LoopPoint(start, end) == [start |-> start, end |-> end]

TrackNames(arrangement) ==
    {arrangement.tracks[i].track.name : i \in DOMAIN arrangement.tracks}

----------------------------------------------------------------------------
(* The realtime player: SynthEngine (engine.rs:56-356) *)

\* The scores the control thread plays.  Lengths are chosen so that, at the
\* sample rates of Init, positions stay small: A lasts 3/2 s and has no loop
\* point, B lasts 2 s and loops 0..1 s, C lasts 1 s and loops 1/2..3/2 s
\* (its loop ends after its last sample).
TrackT1 == MelodyTrack("t1", Synthesized, R(1, 1), 60, <<Note(R(3, 2))>>)

TrackT2 ==
    MelodyTrack("t2", Synthesized, R(1, 1), 60, <<Rest(R(1, 1)), Note(R(1, 1))>>)

TrackT2Short == MelodyTrack("t2", Synthesized, R(1, 1), 60, <<Note(R(1, 1))>>)

\* a track of 400 beats: 400 s at 60 BPM
TrackLong == MelodyTrack("t1", Synthesized, R(1, 1), 60, <<Note(R(400, 1))>>)

ScoreA == Arrangement("A", <<Placed(TrackT1, R(0, 1))>>, None)

ScoreB ==
    Arrangement("B", <<Placed(TrackT1, R(0, 1)), Placed(TrackT2, R(0, 1))>>,
                Some(LoopPoint(R(0, 1), R(1, 1))))

ScoreC ==
    Arrangement("C", <<Placed(TrackT2Short, R(0, 1))>>,
                Some(LoopPoint(R(1, 2), R(3, 2))))

ScoreL == Arrangement("L", <<Placed(TrackLong, R(0, 1))>>, None)

\* note: C4,1,1 / rest: 1 / note: C4,1,1 at 60 BPM
TrackExample ==
    MelodyTrack("ex", Synthesized, R(1, 1), 60,
                <<Note(R(1, 1)), Rest(R(1, 1)), Note(R(1, 1))>>)

\* 3 s: the example track alone
ScoreE == Arrangement("E", <<Placed(TrackExample, R(0, 1))>>, None)

\* a chord track, and a sampled one whose recording is 30000 samples long
TrackChords ==
    MelodyTrack("ch", Synthesized, R(1, 1), 120,
                <<Chord(3, R(1, 64)), Rest(R(1, 64)), Chord(2, R(1, 1))>>)

TrackSampled ==
    MelodyTrack("smp", Sample(30000), R(2, 1), 60,
                <<Note(R(1, 1)), Note(R(1, 1))>>)

\* 2 s: the sampled track from 0 and the chord track from 1/64 s (the
\* times are binary fractions, which f32 holds exactly)
ScoreF ==
    Arrangement("F", <<Placed(TrackSampled, R(0, 1)),
                       Placed(TrackChords, R(1, 64))>>, None)

\* a track of 1 + 1/1024 s, which is 48046.875 samples at 48 kHz
TrackFraction ==
    MelodyTrack("fr", Synthesized, R(1, 1), 60,
                <<Note(R(1, 1)), Note(R(1, 1024))>>)

ScoreG == Arrangement("G", <<Placed(TrackFraction, R(0, 1))>>, None)

Scores == {ScoreA, ScoreB, ScoreC, ScoreL, ScoreE, ScoreF, ScoreG}

\* the arrangement a context refers to by name
Score(name) == CHOOSE a \in Scores : a.name = name

\* what the control thread passes to play_arrangement and crossfade_to
Playable == {"A", "B", "C"}

\* crossfade_to's duration argument, in seconds
Durations == {R(0, 1), R(1, 1)}

\* the track names and values the setters are called with
SetterTracks == {"t2"}

VolumeArgs == {R(3, 1)}

\* the duration given to interpolate_track_volume
InterpolateDurations == {R(1, 1)}

PitchArgs == {R(1, 4)}

\* frames per callback buffer: the driver asks for 1..MaxFrames at a time
MaxFrames == 2

\* the callback is delivered while the position is below this cap
MaxSample == 16777224

Stopped == "Stopped"

Playing == "Playing"

Paused == "Paused"

EmptyMap == [k \in {} |-> 0]

\* HashMap::insert
Insert(map, key, value) ==
    [k \in (DOMAIN map) \cup {key} |-> IF k = key THEN value ELSE map[k]]

\* DynamicParameters::default() (engine.rs:28-38)
DefaultParameters ==
    [master_volume |-> R(1, 1), master_pitch |-> R(1, 1),
     track_volumes |-> EmptyMap, track_enabled |-> EmptyMap,
     crossfade_duration |-> R(1, 1)]

\* the context play_arrangement builds (engine.rs:127-140)
FreshContext(name) ==
    [arrangement |-> name,
     current_sample |-> 0,
     state |-> Playing,
     loop_enabled |-> FALSE,
     dynamic_params |->
        [DefaultParameters EXCEPT
            !.track_enabled = [t \in TrackNames(Score(name)) |-> TRUE],
            !.track_volumes = [t \in TrackNames(Score(name)) |-> R(1, 1)]],
     param_interpolators |-> EmptyMap,
     crossfade_state |-> None]

\* get_playback_position (engine.rs:227-233): seconds, as the fraction
\* current_sample / sample_rate
GetPlaybackPosition(context, sr) ==
    IF context # None THEN R(context[1].current_sample, sr) ELSE R(0, 1)

\* get_playback_state (engine.rs:235-241)
GetPlaybackState(context) ==
    IF context # None THEN context[1].state ELSE Stopped

\* synthesize_single_sample (engine.rs:358-464), symbolically: the sample of
\* `arrangement` at index sample_idx, with the gain each enabled track gets
\* from track_volumes (a muted track contributes nothing)
SynthesizeSingleSample(arrangement, sample_idx, params) ==
    [arr |-> arrangement.name, idx |-> sample_idx,
     gains |-> [t \in TrackNames(arrangement) |->
                  IF t \in DOMAIN params.track_enabled /\ ~params.track_enabled[t]
                  THEN R(0, 1)
                  ELSE IF t \in DOMAIN params.track_volumes
                       THEN params.track_volumes[t] ELSE R(1, 1)]]

\* mutant of CrossfadeBlock: a completed crossfade installs the target as a
\* fresh play would
CrossfadeBlockRestarts(c, x) ==
    IF c.crossfade_state = None
    THEN [ctx |-> c, mix |-> [x |-> x, target |-> None, t |-> None]]
    ELSE LET crossfade == c.crossfade_state[1]
             duration == UsizeAsF32(crossfade.duration_samples)
             t == F32Div(crossfade.progress, duration)
             target_sample ==
                 SynthesizeSingleSample(Score(crossfade.target_arrangement),
                                        c.current_sample, c.dynamic_params)
             progress == F32Inc(crossfade.progress)
         IN  [ctx |->
                 IF progress >= duration
                 THEN FreshContext(crossfade.target_arrangement)
                 ELSE [c EXCEPT !.crossfade_state =
                                    Some([crossfade EXCEPT !.progress = progress])],
              mix |-> [x |-> x, target |-> Some(target_sample), t |-> Some(t)]]

\* The crossfade block of one frame (engine.rs:277-295): the mix weight t is
\* read before progress advances; on completion the target is installed and
\* the crossfade cleared.  Yields the context and the mix.
CrossfadeBlock(c, x) ==
    IF c.crossfade_state = None
    THEN [ctx |-> c, mix |-> [x |-> x, target |-> None, t |-> None]]
    ELSE LET crossfade == c.crossfade_state[1]
             duration == UsizeAsF32(crossfade.duration_samples)
             t == F32Div(crossfade.progress, duration)
             target_sample ==
                 SynthesizeSingleSample(Score(crossfade.target_arrangement),
                                        c.current_sample, c.dynamic_params)
             progress == F32Inc(crossfade.progress)
         IN  [ctx |->
                 IF progress >= duration
                 THEN [c EXCEPT !.arrangement = crossfade.target_arrangement,
                                !.crossfade_state = None]
                 ELSE [c EXCEPT !.crossfade_state =
                                    Some([crossfade EXCEPT !.progress = progress])],
              mix |-> [x |-> x, target |-> Some(target_sample), t |-> Some(t)]]

\* mutant of LoopStop: a loop-point jump goes to sample 0, not to the loop start
LoopStopToZero(c, sr) ==
    LET arrangement == Score(c.arrangement)
        total_samples == FloorMul(arrangement.total_length, sr)
    IN  IF c.loop_enabled
        THEN IF arrangement.loop_point # None
             THEN IF RLeq(arrangement.loop_point[1].end,
                          R(UsizeAsF32(c.current_sample), sr))
                  THEN [c EXCEPT !.current_sample = 0]
                  ELSE c
             ELSE IF c.current_sample >= total_samples
                  THEN [c EXCEPT !.current_sample = 0]
                  ELSE c
        ELSE IF c.current_sample >= total_samples
             THEN [c EXCEPT !.state = Stopped]
             ELSE c

\* mutant of LoopStop: one chain of tests, so that a looping context below
\* its loop end still wraps to 0 at total_length
LoopStopChain(c, sr) ==
    LET arrangement == Score(c.arrangement)
        total_samples == FloorMul(arrangement.total_length, sr)
    IN  IF /\ c.loop_enabled
           /\ arrangement.loop_point # None
           /\ RLeq(arrangement.loop_point[1].end,
                   R(UsizeAsF32(c.current_sample), sr))
        THEN [c EXCEPT !.current_sample =
                          FloorMul(arrangement.loop_point[1].start, sr)]
        ELSE IF c.loop_enabled
             THEN IF c.current_sample >= total_samples
                  THEN [c EXCEPT !.current_sample = 0]
                  ELSE c
             ELSE IF c.current_sample >= total_samples
                  THEN [c EXCEPT !.state = Stopped]
                  ELSE c

\* mutant of LoopStop: the end tests use > where the code has >=
LoopStopLate(c, sr) ==
    LET arrangement == Score(c.arrangement)
        total_samples == FloorMul(arrangement.total_length, sr)
    IN  IF c.loop_enabled
        THEN IF arrangement.loop_point # None
             THEN LET loop_point == arrangement.loop_point[1]
                      pos == R(UsizeAsF32(c.current_sample), sr)
                  IN  IF RLt(loop_point.end, pos)
                      THEN [c EXCEPT !.current_sample = FloorMul(loop_point.start, sr)]
                      ELSE c
             ELSE IF c.current_sample > total_samples
                  THEN [c EXCEPT !.current_sample = 0]
                  ELSE c
        ELSE IF c.current_sample > total_samples
             THEN [c EXCEPT !.state = Stopped]
             ELSE c

\* The loop/stop logic of one frame (engine.rs:299-317), after current_sample
\* was advanced.  pos >= loop_point.end compares current_sample as f32 /
\* sample_rate with the loop end.
LoopStop(c, sr) ==
    LET arrangement == Score(c.arrangement)
        total_samples == FloorMul(arrangement.total_length, sr)
    IN  IF c.loop_enabled
        THEN IF arrangement.loop_point # None
             THEN LET loop_point == arrangement.loop_point[1]
                      pos == R(UsizeAsF32(c.current_sample), sr)
                  IN  IF RLeq(loop_point.end, pos)
                      THEN [c EXCEPT !.current_sample = FloorMul(loop_point.start, sr)]
                      ELSE c
             ELSE IF c.current_sample >= total_samples
                  THEN [c EXCEPT !.current_sample = 0]
                  ELSE c
        ELSE IF c.current_sample >= total_samples
             THEN [c EXCEPT !.state = Stopped]
             ELSE c

\* The fade multipliers of one frame (engine.rs:319-335), as the pair of
\* factors of fade_mult; a factor is 1 when its fade is absent or not active
FadeMult(c, sr) ==
    LET arrangement == Score(c.arrangement)
        current_time == R(UsizeAsF32(c.current_sample), sr)
        total_length == arrangement.total_length
        fade_in ==
            IF arrangement.fade_in # None /\ RLt(current_time, arrangement.fade_in[1])
            THEN R(current_time.n * arrangement.fade_in[1].d,
                   current_time.d * arrangement.fade_in[1].n)
            ELSE R(1, 1)
        fade_out ==
            IF arrangement.fade_out # None
               /\ RLt(total_length,
                      RAdd(current_time, arrangement.fade_out[1]))
            THEN R((total_length.n * current_time.d - current_time.n * total_length.d)
                       * arrangement.fade_out[1].d,
                   total_length.d * current_time.d * arrangement.fade_out[1].n)
            ELSE R(1, 1)
    IN  <<fade_in, fade_out>>

\* One frame of the callback's frame loop (engine.rs:265-341): synthesize,
\* crossfade, advance, loop/stop, fades.  Yields the context after the frame
\* and the value written to every channel of the frame.
Frame(c, sr) ==
    LET x == SynthesizeSingleSample(Score(c.arrangement), c.current_sample,
                                    c.dynamic_params)
        mixed == CrossfadeBlock(c, x)
        advanced == [mixed.ctx EXCEPT !.current_sample = @ + 1]
        after == LoopStop(advanced, sr)
    IN  [ctx |-> after,
         out |-> [zero |-> FALSE,
                  mix |-> mixed.mix,
                  master_volume |-> after.dynamic_params.master_volume,
                  fade_mult |-> FadeMult(after, sr)]]

\* a frame of silence (engine.rs:259-261, 343-345)
Silence ==
    [zero |-> TRUE,
     mix |-> [x |-> [arr |-> "", idx |-> 0, gains |-> EmptyMap],
              target |-> None, t |-> None],
     master_volume |-> R(0, 1), fade_mult |-> <<R(1, 1), R(1, 1)>>]

----------------------------------------------------------------------------
(* Control calls.  Each locks the context mutex for its whole update, so it  *)
(* runs only while the callback is not inside a buffer (cb_len = 0).        *)

MutexFree == cb_len = 0

\* what a control call found: a summary of the context it replaced
Saw(context) ==
    IF context = None
    THEN [context |-> FALSE, state |-> Stopped, loop_enabled |-> FALSE,
          crossfade |-> FALSE, position |-> 0, custom |-> FALSE]
    ELSE [context |-> TRUE,
          state |-> context[1].state,
          loop_enabled |-> context[1].loop_enabled,
          crossfade |-> context[1].crossfade_state # None,
          position |-> context[1].current_sample,
          custom |-> context[1].dynamic_params
                        # FreshContext(context[1].arrangement).dynamic_params]

\* mutant of StopEngine: the stream is dropped but the context is kept
StopEngineKeepsContext ==
    /\ open_streams' = IF stream THEN open_streams - 1 ELSE open_streams
    /\ stream' = FALSE
    /\ playback_context' = playback_context

\* stop (engine.rs:188-193): drop the stream handle, clear the context
StopEngine ==
    /\ open_streams' = IF stream THEN open_streams - 1 ELSE open_streams
    /\ stream' = FALSE
    /\ playback_context' = None

Stop ==
    /\ MutexFree
    /\ StopEngine
    /\ last_call' = Some([op |-> "stop", arg |-> "", ok |-> TRUE,
                          saw |-> Saw(playback_context)])
    /\ UNCHANGED <<sample_rate, cb_len, data, rstate, lib_vars>>

\* mutant of StartEngine: the new context inherits the old one's loop flag and
\* dynamic parameters
StartEngineKeepsSettings(name, ok) ==
    /\ playback_context' =
           Some(IF playback_context = None THEN FreshContext(name)
                ELSE [FreshContext(name) EXCEPT
                         !.loop_enabled = playback_context[1].loop_enabled,
                         !.dynamic_params = playback_context[1].dynamic_params])
    /\ stream' = ok
    /\ open_streams' = (IF stream THEN open_streams - 1 ELSE open_streams)
                         + (IF ok THEN 1 ELSE 0)

\* play_arrangement (engine.rs:124-146): stop(), install a fresh context, then
\* start_stream (engine.rs:243-356), which fails (`ok` false) when there is no
\* output device or the stream cannot be built or started
StartEngine(name, ok) ==
    /\ playback_context' = Some(FreshContext(name))
    /\ stream' = ok
    /\ open_streams' = (IF stream THEN open_streams - 1 ELSE open_streams)
                         + (IF ok THEN 1 ELSE 0)

PlayArrangement(name, ok) ==
    /\ MutexFree
    /\ StartEngine(name, ok)
    /\ last_call' = Some([op |-> "play", arg |-> name, ok |-> ok,
                          saw |-> Saw(playback_context)])
    /\ UNCHANGED <<sample_rate, cb_len, data, rstate, lib_vars>>

\* the CrossfadeState crossfade_to installs (engine.rs:153-157)
NewCrossfade(name, duration, sr) ==
    [target_arrangement |-> name, progress |-> 0,
     duration_samples |-> FloorMul(duration, sr)]

\* crossfade_to (engine.rs:148-164): with a context, replace its
\* crossfade_state; without one, play_arrangement
CrossfadeTo(name, duration, ok) ==
    /\ MutexFree
    /\ IF playback_context # None
       THEN /\ playback_context' =
                   Some([playback_context[1] EXCEPT !.crossfade_state =
                             Some(NewCrossfade(name, duration, sample_rate))])
            /\ UNCHANGED <<stream, open_streams>>
       ELSE StartEngine(name, ok)
    /\ last_call' = Some([op |-> "crossfade_to", arg |-> name,
                          ok |-> (playback_context # None \/ ok),
                          saw |-> Saw(playback_context)])
    /\ UNCHANGED <<sample_rate, cb_len, data, rstate, lib_vars>>

\* mutant of Setter: the update does not wait for the mutex
SetterUnlocked(new_context) ==
    /\ playback_context' = new_context
    /\ last_call' = None
    /\ UNCHANGED <<sample_rate, stream, open_streams, cb_len, data, rstate, lib_vars>>

\* A setter locks the mutex and updates the context if there is one
\* (`if let Some(ctx) = self.playback_context.lock().unwrap().as_mut()`)
Setter(new_context) ==
    /\ MutexFree
    /\ playback_context' = new_context
    /\ last_call' = None
    /\ UNCHANGED <<sample_rate, stream, open_streams, cb_len, data, rstate, lib_vars>>

\* mutant of PauseContext: pause from any state
PauseContextAnyState(c) == [c EXCEPT !.state = Paused]

\* pause (engine.rs:172-178)
PauseContext(c) == IF c.state = Playing THEN [c EXCEPT !.state = Paused] ELSE c

Pause == Setter(IF playback_context # None
                THEN Some(PauseContext(playback_context[1])) ELSE None)

\* resume (engine.rs:180-186)
ResumeContext(c) == IF c.state = Paused THEN [c EXCEPT !.state = Playing] ELSE c

Resume == Setter(IF playback_context # None
                 THEN Some(ResumeContext(playback_context[1])) ELSE None)

\* set_loop_enabled (engine.rs:166-170)
SetLoopEnabled(enabled) ==
    Setter(IF playback_context # None
           THEN Some([playback_context[1] EXCEPT !.loop_enabled = enabled])
           ELSE None)

\* volume.max(lo).min(hi)
Clamp(v, lo, hi) == RMin(RMax(v, lo), hi)

\* set_master_volume (engine.rs:195-199)
SetMasterVolume(volume) ==
    Setter(IF playback_context # None
           THEN Some([playback_context[1] EXCEPT !.dynamic_params.master_volume =
                          Clamp(volume, R(0, 1), R(2, 1))])
           ELSE None)

\* set_master_pitch (engine.rs:201-205)
SetMasterPitch(pitch) ==
    Setter(IF playback_context # None
           THEN Some([playback_context[1] EXCEPT !.dynamic_params.master_pitch =
                          Clamp(pitch, R(1, 2), R(2, 1))])
           ELSE None)

\* set_track_enabled (engine.rs:207-211)
SetTrackEnabled(track_name, enabled) ==
    Setter(IF playback_context # None
           THEN Some([playback_context[1] EXCEPT !.dynamic_params.track_enabled =
                          Insert(@, track_name, enabled)])
           ELSE None)

\* set_track_volume (engine.rs:213-217)
SetTrackVolume(track_name, volume) ==
    Setter(IF playback_context # None
           THEN Some([playback_context[1] EXCEPT !.dynamic_params.track_volumes =
                          Insert(@, track_name, Clamp(volume, R(0, 1), R(2, 1)))])
           ELSE None)

\* interpolate_track_volume (engine.rs:219-225): the duration is filed
\* under "vol_<track>" and the target is stored as the track's volume as it
\* is given
InterpolateTrackVolume(track_name, target, duration) ==
    Setter(IF playback_context # None
           THEN Some([playback_context[1] EXCEPT
                          !.param_interpolators =
                              Insert(@, "vol_" \o track_name, duration),
                          !.dynamic_params.track_volumes =
                              Insert(@, track_name, target)])
           ELSE None)

----------------------------------------------------------------------------
(* The audio callback (engine.rs:254-347), run by the driver's thread while *)
(* a stream is open.  It locks the mutex for the whole buffer: CallbackBegin *)
(* takes it, CallbackFrame fills one frame, CallbackReturn releases it.     *)

RECURSIVE Fill(_, _)
Fill(n, frame) == IF n = 0 THEN <<>> ELSE <<frame>> \o Fill(n - 1, frame)

\* engine.rs:255-264, 342-346: lock; with no context, or a context that is
\* not Playing, zero-fill the whole buffer
\* mutant of ZeroFill: only a paused context is silent
ZeroFillPausedOnly(context, n) ==
    IF context # None /\ context[1].state = Paused
    THEN Fill(n, Silence) ELSE <<>>

\* what the callback has written when it reaches its frame loop
\* (engine.rs:257-263, 342-346): zeroes in the whole buffer, and no frame
\* loop, when there is no context or its state is not Playing
ZeroFill(context, n) ==
    IF context = None \/ context[1].state # Playing
    THEN Fill(n, Silence) ELSE <<>>

CallbackBegin(n) ==
    /\ open_streams > 0
    /\ cb_len = 0
    /\ playback_context # None => playback_context[1].current_sample < MaxSample
    /\ cb_len' = n
    /\ data' = ZeroFill(playback_context, n)
    /\ last_call' = None
    /\ UNCHANGED <<sample_rate, playback_context, stream, open_streams, rstate, lib_vars>>

\* engine.rs:265-341: one iteration of the frame loop.  The state is tested
\* once, before the loop (engine.rs:258): a frame that sets Stopped does not
\* end the loop.
CallbackFrame ==
    /\ cb_len > 0
    /\ Len(data) < cb_len
    /\ LET r == Frame(playback_context[1], sample_rate)
       IN  /\ playback_context' = Some(r.ctx)
           /\ data' = Append(data, r.out)
    /\ UNCHANGED <<sample_rate, stream, open_streams, cb_len, last_call, rstate, lib_vars>>

\* the callback returns: the guard is dropped, the buffer goes to the driver
CallbackReturn ==
    /\ cb_len > 0
    /\ Len(data) = cb_len
    /\ cb_len' = 0
    /\ data' = <<>>
    /\ UNCHANGED <<sample_rate, playback_context, stream, open_streams,
                   last_call, rstate, lib_vars>>

\* none of the parts exercised on their own is in use
LibIdle == nbuf = None /\ bmi = None /\ fx = None /\ env = None /\ th = None /\ gain = None

----------------------------------------------------------------------------
(* The offline renderer, synthesize_arrangement (engine.rs:466-672).  A     *)
(* buffer is the set of the runs of samples written into it: a run          *)
(* [track, elem, at, n] is n samples of sequence element elem of the track, *)
(* from the element's first sample on, at the indices at .. at + n - 1.     *)
(* The instruments have no effects and the arrangements no fades; the       *)
(* final normalisation scales the samples and moves none.                   *)

\* the renderer is not running
RenderIdle ==
    [pc |-> "idle", arrangement |-> "", track |-> 0, sample_offset |-> 0,
     len |-> 0, buffer |-> {}]

\* let chunk_size = 1024 (engine.rs:477)
chunk_size == 1024

Min(a, b) == IF a <= b THEN a ELSE b

Max(a, b) == IF a >= b THEN a ELSE b

\* the samples an element takes of the track's cursor: a note of a sampled
\* instrument takes the recording's length over the instrument's pitch,
\* everything else its duration in beats times 60 / tempo
ElementSamples(track, element, sr) ==
    IF element.kind = "Note" /\ track.source.kind = "Sample"
    THEN (track.source.sample_len * track.pitch.d) \div track.pitch.n
    ELSE FloorMul(R(element.duration.n * 60, element.duration.d * track.tempo), sr)

RECURSIVE CursorAt(_, _, _)
\* current_sample of synthesize_track_into when it comes to element j
CursorAt(track, j, sr) ==
    IF j = 1 THEN 0
    ELSE CursorAt(track, j - 1, sr)
            + ElementSamples(track, track.sequence[j - 1], sr)

\* mutant of synthesize_track_into: start_sample is where the buffer begins in
\* the track, so the buffer holds the track's samples start_sample ..
\* start_sample + buffer_len - 1
SynthesizeTrackWindow(buffer_len, track, start_sample, sr) ==
    {[elem |-> j,
      at |-> Max(CursorAt(track, j, sr), start_sample) - start_sample,
      n |-> Min(CursorAt(track, j, sr) + ElementSamples(track, track.sequence[j], sr),
                start_sample + buffer_len)
            - Max(CursorAt(track, j, sr), start_sample)] :
        j \in {k \in DOMAIN track.sequence :
                  /\ track.sequence[k].kind # "Rest"
                  /\ CursorAt(track, k, sr) < start_sample + buffer_len
                  /\ CursorAt(track, k, sr)
                        + ElementSamples(track, track.sequence[k], sr) > start_sample}}

\* synthesize_track_into (engine.rs:560-672) on a buffer of buffer_len
\* samples: element j writes buffer[start_sample + current_sample + i] for
\* i = 0, 1, .. and stops at the first index outside the buffer
SynthesizeTrackInto(buffer_len, track, start_sample, sr) ==
    {[elem |-> j,
      at |-> start_sample + CursorAt(track, j, sr),
      n |-> Min(ElementSamples(track, track.sequence[j], sr),
                buffer_len - (start_sample + CursorAt(track, j, sr)))] :
        j \in {k \in DOMAIN track.sequence :
                  /\ track.sequence[k].kind # "Rest"
                  /\ ElementSamples(track, track.sequence[k], sr) > 0
                  /\ start_sample + CursorAt(track, k, sr) < buffer_len}}

\* mutant of RenderTotalSamples: the length is rounded up
RenderTotalSamplesCeil(arrangement, sr) ==
    0 - ((0 - arrangement.total_length.n * sr) \div arrangement.total_length.d)

\* the renderer's copy of a placed track with the placement's overrides
\* applied (engine.rs:488-499); master_pitch is 1 in the offline render
ApplyOverrides(placed) ==
    [placed.track EXCEPT
        !.pitch = IF placed.overrides.pitch # None
                  THEN placed.overrides.pitch[1] ELSE @,
        !.tempo = IF placed.overrides.tempo # None
                  THEN placed.overrides.tempo[1] ELSE @]

\* the tempo that times a placed track's elements in the offline renderer
\* (engine.rs:493, 562)
OfflineTempo(placed) == ApplyOverrides(placed).tempo

\* the tempo that times a placed track's elements in the realtime
\* synthesizer, which does not look at the overrides (engine.rs:367, 382)
RealtimeTempo(placed) == placed.track.tempo

\* let total_samples = (arrangement.total_length * sample_rate) as usize
RenderTotalSamples(arrangement, sr) == FloorMul(arrangement.total_length, sr)

\* synthesize_arrangement enters its loop over the tracks with a zeroed
\* buffer (engine.rs:475-479)
RenderStart(name) ==
    /\ rstate.pc \in {"idle", "done"}
    /\ rstate' = [pc |-> "track", arrangement |-> name, track |-> 1,
                  sample_offset |-> 0,
                  len |-> RenderTotalSamples(Score(name), sample_rate),
                  buffer |-> {}]
    /\ UNCHANGED <<engine_vars, lib_vars>>

\* one turn of the chunk loop (engine.rs:508-529): synthesize the track into
\* a fresh chunk buffer, then add the chunk to the output from
\* start_sample + sample_offset on, dropping what falls behind its end
RenderChunk ==
    /\ rstate.pc = "track"
    /\ rstate.track <= Len(Score(rstate.arrangement).tracks)
    /\ LET arrangement == Score(rstate.arrangement)
           placed == arrangement.tracks[rstate.track]
           t == ApplyOverrides(placed)
           start_sample == FloorMul(placed.start_time, sample_rate)
           track_total_samples == FloorMul(t.length, sample_rate)
           sample_offset == rstate.sample_offset
           current_chunk_size == Min(chunk_size, track_total_samples - sample_offset)
           chunk_buf == SynthesizeTrackInto(current_chunk_size, t, sample_offset,
                                            sample_rate)
           mixed == {[track |-> rstate.track,
                      elem |-> run.elem,
                      at |-> start_sample + sample_offset + run.at,
                      n |-> Min(run.n, rstate.len
                                         - (start_sample + sample_offset + run.at))] :
                        run \in {r \in chunk_buf :
                                   start_sample + sample_offset + r.at < rstate.len}}
       IN  /\ sample_offset < track_total_samples
           /\ rstate' = [rstate EXCEPT
                            !.buffer = @ \cup mixed,
                            !.sample_offset = sample_offset + current_chunk_size]
    /\ UNCHANGED <<engine_vars, lib_vars>>

\* the chunk loop of a track ends and the loop over the tracks goes on
RenderNextTrack ==
    /\ rstate.pc = "track"
    /\ rstate.track <= Len(Score(rstate.arrangement).tracks)
    /\ rstate.sample_offset >=
          FloorMul(Score(rstate.arrangement).tracks[rstate.track].track.length,
                   sample_rate)
    /\ rstate' = [rstate EXCEPT !.track = @ + 1, !.sample_offset = 0]
    /\ UNCHANGED <<engine_vars, lib_vars>>

\* after the last track the buffer is returned (engine.rs:531-556)
RenderFinish ==
    /\ rstate.pc = "track"
    /\ rstate.track > Len(Score(rstate.arrangement).tracks)
    /\ rstate' = [rstate EXCEPT !.pc = "done"]
    /\ UNCHANGED <<engine_vars, lib_vars>>

\* SynthEngine::new (engine.rs:66-82): no context, no stream
EngineNew(sr) ==
    /\ sample_rate = sr
    /\ playback_context = None
    /\ stream = FALSE
    /\ open_streams = 0
    /\ cb_len = 0
    /\ data = <<>>
    /\ last_call = None

Renderable == {"E", "B", "F", "G"}

InitRender ==
    /\ EngineNew(48000)
    /\ rstate = RenderIdle
    /\ LibIdle

NextRender ==
    \/ \E name \in Renderable : RenderStart(name)
    \/ RenderChunk
    \/ RenderNextTrack
    \/ RenderFinish

SpecRender == InitRender /\ [][NextRender]_vars

----------------------------------------------------------------------------
(* The renderer's normalisation (engine.rs:551-554) on its own, applied to  *)
(* short buffers of finite samples.                                          *)

\* f32::abs
RAbs(a) == IF a.n < 0 THEN R(0 - a.n, a.d) ELSE a

\* a / b for b > 0, in lowest terms
RDiv(a, b) ==
    CHOOSE r \in {LET n == x.n * y.d
                      d == x.d * y.n
                      g == Gcd(IF n < 0 THEN 0 - n ELSE n, d)
                  IN  R(n \div g, d \div g) : x \in {a}, y \in {b}} : TRUE

RECURSIVE Peak(_)
\* buffer.iter().map(|v| v.abs()).max_by(..) of a buffer that is not empty
Peak(buffer) ==
    IF Len(buffer) = 1 THEN RAbs(buffer[1])
    ELSE RMax(RAbs(buffer[1]), Peak(Tail(buffer)))

\* mutant of Normalize: every buffer with a peak above 0 is scaled to peak 1
NormalizeAlways(buffer) ==
    IF buffer # <<>> /\ RLt(R(0, 1), Peak(buffer))
    THEN [i \in DOMAIN buffer |-> RDiv(buffer[i], Peak(buffer))]
    ELSE buffer

\* if let Some(max) = .. { if max > 1.0 { buffer.iter_mut().for_each(|s| *s /= max) } }
Normalize(buffer) ==
    IF buffer # <<>> /\ RLt(R(1, 1), Peak(buffer))
    THEN [i \in DOMAIN buffer |-> RDiv(buffer[i], Peak(buffer))]
    ELSE buffer

\* the sample values of the buffers that are normalised
NormSamples == {R(-3, 1), R(-1, 2), R(0, 1), R(1, 1), R(3, 2)}

MaxBufLen == 3

RECURSIVE Buffers(_)
\* the buffers of exactly n samples
Buffers(n) ==
    IF n = 0 THEN {<<>>}
    ELSE {Append(b, v) : b \in Buffers(n - 1), v \in NormSamples}

\* the buffer reaches the normalisation
NormalizeBuffer ==
    /\ nbuf # None
    /\ nbuf[1].output = None
    /\ nbuf' = Some([nbuf[1] EXCEPT !.output = Some(Normalize(nbuf[1].input))])
    /\ UNCHANGED <<engine_vars, rstate, bmi, fx, env, th, gain>>

\* the normalisation applied to a buffer it has returned
NormalizeAgain ==
    /\ nbuf # None
    /\ nbuf[1].output # None
    /\ nbuf[1].again = None
    /\ nbuf' = Some([nbuf[1] EXCEPT !.again = Some(Normalize(nbuf[1].output[1]))])
    /\ UNCHANGED <<engine_vars, rstate, bmi, fx, env, th, gain>>

InitNormalize ==
    /\ EngineNew(48000)
    /\ rstate = RenderIdle
    /\ \E n \in 0..MaxBufLen : \E b \in Buffers(n) :
          nbuf = Some([input |-> b, output |-> None, again |-> None])
    /\ bmi = None
    /\ fx = None
    /\ env = None
    /\ th = None
    /\ gain = None

NextNormalize == NormalizeBuffer \/ NormalizeAgain

SpecNormalize == InitNormalize /\ [][NextNormalize]_vars

----------------------------------------------------------------------------
(* Arrangement::from_bmi (arrangement.rs:30-172), line by line: the        *)
(* master_tempo lines and the track lines of a score.                      *)

\* the arrangement from_bmi starts from (arrangement.rs:31-39)
NewArrangement ==
    [name |-> "song", tracks |-> <<>>, total_length |-> R(0, 1),
     loop_point |-> None, master_tempo |-> None, fade_in |-> None,
     fade_out |-> None]

\* mutant of PlaceTrack: total_length is the end of the track placed last
PlaceTrackLastEnd(arrangement, track, start_time, overrides) ==
    [arrangement EXCEPT
        !.tracks = Append(@, [track |-> track, start_time |-> start_time,
                              overrides |-> overrides]),
        !.total_length = RAdd(start_time, track.length)]

\* a track line whose melody is in the cache (arrangement.rs:142-157): the
\* copy gets the override's tempo, then the master tempo if one has been
\* read, and total_length grows to the end of the track
PlaceTrack(arrangement, track, start_time, overrides) ==
    LET overridden == IF overrides.tempo # None
                      THEN [track EXCEPT !.tempo = overrides.tempo[1]]
                      ELSE track
        modified_track == IF arrangement.master_tempo # None
                          THEN [overridden EXCEPT
                                   !.tempo = arrangement.master_tempo[1]]
                          ELSE overridden
        end_time == RAdd(start_time, track.length)
    IN  [arrangement EXCEPT
            !.tracks = Append(@, [track |-> modified_track,
                                  start_time |-> start_time,
                                  overrides |-> overrides]),
            !.total_length = IF RLt(@, end_time) THEN end_time ELSE @]

\* the melodies of the cache, the start times and the tempos of the lines
MelCache == {TrackT1, TrackT2Short, TrackChords}

BmiStarts == {R(0, 1), R(1, 2), R(2, 1)}

BmiTempos == {None, Some(90)}

MasterTempos == {30, 120}

MaxLines == 3

\* a line "master_tempo: <tempo>" (arrangement.rs:49-50)
BmiMasterTempoLine(tempo) ==
    /\ bmi # None
    /\ bmi[1].lines < MaxLines
    /\ bmi' = Some([arrangement |->
                        [bmi[1].arrangement EXCEPT !.master_tempo = Some(tempo)],
                    lines |-> bmi[1].lines + 1])
    /\ UNCHANGED <<engine_vars, rstate, nbuf, fx, env, th, gain>>

\* a line "track: <mel>, <start>[, tempo=<tempo>]" (arrangement.rs:63-161)
BmiTrackLine(track, start_time, tempo) ==
    /\ bmi # None
    /\ bmi[1].lines < MaxLines
    /\ bmi' = Some([arrangement |->
                        PlaceTrack(bmi[1].arrangement, track, start_time,
                                   [NoOverrides EXCEPT !.tempo = tempo]),
                    lines |-> bmi[1].lines + 1])
    /\ UNCHANGED <<engine_vars, rstate, nbuf, fx, env, th, gain>>

InitBmi ==
    /\ EngineNew(48000)
    /\ rstate = RenderIdle
    /\ nbuf = None
    /\ bmi = Some([arrangement |-> NewArrangement, lines |-> 0])
    /\ fx = None
    /\ env = None
    /\ th = None
    /\ gain = None

NextBmi ==
    \/ \E tempo \in MasterTempos : BmiMasterTempoLine(tempo)
    \/ \E track \in MelCache, start_time \in BmiStarts, tempo \in BmiTempos :
          BmiTrackLine(track, start_time, tempo)

SpecBmi == InitBmi /\ [][NextBmi]_vars

----------------------------------------------------------------------------
(* The effects processor (effects.rs:96-277).  Samples are rationals and    *)
(* the arithmetic is exact; a VecDeque is a sequence whose first element is *)
(* the front (index 0).                                                     *)

\* n / d in lowest terms, for d > 0
RNorm(n, d) ==
    LET g == Gcd(IF n < 0 THEN 0 - n ELSE n, d)
    IN  R(n \div g, d \div g)

RNeg(a) == CHOOSE r \in {R(0 - x.n, x.d) : x \in {a}} : TRUE

\* a * b in lowest terms, for a and b in lowest terms
RMul(a, b) ==
    CHOOSE r \in {LET g1 == Gcd(IF x.n < 0 THEN 0 - x.n ELSE x.n, y.d)
                      g2 == Gcd(IF y.n < 0 THEN 0 - y.n ELSE y.n, x.d)
                  IN  R((x.n \div g1) * (y.n \div g2),
                        (x.d \div g2) * (y.d \div g1)) : x \in {a}, y \in {b}} : TRUE

RSub(a, b) == RAdd(a, RNeg(b))

Zero == R(0, 1)

One == R(1, 1)

\* `x as usize` of a rational: the floor, and 0 for a negative value
AsUsize(x) == IF x.n < 0 THEN 0 ELSE x.n \div x.d

\* vec![0.0; size]
Zeros(size) == IF size = 0 THEN <<>> ELSE [i \in 1..size |-> Zero]

\* EffectsProcessor::new (effects.rs:107-140)
NewEffectsProcessor(sr) ==
    LET scale == R(sr, 44100)
        Size(delay) == AsUsize(RMul(R(delay, 1), scale))
    IN  [sample_rate |-> sr,
         comb_buffers |-> <<Zeros(Size(1116)), Zeros(Size(1188)),
                            Zeros(Size(1277)), Zeros(Size(1356)),
                            Zeros(Size(1422)), Zeros(Size(1491)),
                            Zeros(Size(1557)), Zeros(Size(1617))>>,
         comb_filter_state |-> <<Zero, Zero, Zero, Zero, Zero, Zero, Zero, Zero>>,
         allpass_buffers |-> <<Zeros(Size(556)), Zeros(Size(441)),
                               Zeros(Size(341)), Zeros(Size(225))>>,
         delay_buffer |-> Zeros(sr * 2),
         lowpass_state |-> Zero,
         filter_state |-> <<Zero, Zero>>]

\* cycle_buffer (effects.rs:273-276): pop_back, then push_front
CycleBuffer(buffer, new_value) ==
    <<new_value>> \o (IF buffer = <<>> THEN <<>>
                      ELSE SubSeq(buffer, 1, Len(buffer) - 1))

\* buffer.back().copied().unwrap_or(0.0)
Back(buffer) == IF buffer = <<>> THEN Zero ELSE buffer[Len(buffer)]

\* cos and sin of TAU * cutoff / sample_rate, at the quarter turns
CosTurn(q) ==
    CASE q = R(0, 1) -> One
      [] q = R(1, 4) -> Zero
      [] q = R(1, 2) -> RNeg(One)
      [] q = R(3, 4) -> Zero

SinTurn(q) ==
    CASE q = R(0, 1) -> Zero
      [] q = R(1, 4) -> One
      [] q = R(1, 2) -> Zero
      [] q = R(3, 4) -> RNeg(One)

\* apply_filter (effects.rs:166-215)
ApplyFilter(p, input, params) ==
    LET q == RNorm(params.cutoff.n, params.cutoff.d * p.sample_rate)
        cos_omega == CosTurn(q)
        alpha == RMul(SinTurn(q), params.resonance)
        half == R(1, 2)
        b0 == CASE params.filter_type = "LowPass" -> RMul(RSub(One, cos_omega), half)
                [] params.filter_type = "HighPass" -> RMul(RAdd(One, cos_omega), half)
                [] params.filter_type = "BandPass" -> alpha
        b1 == CASE params.filter_type = "LowPass" -> RSub(One, cos_omega)
                [] params.filter_type = "HighPass" -> RNeg(RAdd(One, cos_omega))
                [] params.filter_type = "BandPass" -> Zero
        b2 == CASE params.filter_type = "LowPass" -> RMul(RSub(One, cos_omega), half)
                [] params.filter_type = "HighPass" -> RMul(RAdd(One, cos_omega), half)
                [] params.filter_type = "BandPass" -> RNeg(alpha)
        a0 == RAdd(One, alpha)
        a1 == RMul(R(-2, 1), cos_omega)
        a2 == RSub(One, alpha)
        sum == RSub(RSub(RAdd(RAdd(RMul(b0, input), RMul(b1, p.filter_state[1])),
                              RMul(b2, p.filter_state[2])),
                         RMul(a1, p.filter_state[1])),
                    RMul(a2, p.filter_state[2]))
        output == RDiv(sum, a0)
    IN  [p |-> [p EXCEPT !.filter_state = <<output, p.filter_state[1]>>],
         output |-> output]

\* apply_distortion (effects.rs:217-231)
ApplyDistortion(p, input, params) ==
    LET driven == RMul(input, params.drive)
        distorted == IF RLt(One, driven) THEN R(2, 3)
                     ELSE IF RLt(driven, RNeg(One)) THEN R(-2, 3)
                     ELSE RSub(driven,
                               RDiv(RMul(driven, RMul(driven, driven)), R(3, 1)))
        alpha == RSub(One, params.tone)
        lowpass_state == RAdd(RMul(p.lowpass_state, alpha),
                              RMul(distorted, RSub(One, alpha)))
    IN  [p |-> [p EXCEPT !.lowpass_state = lowpass_state],
         output |-> RAdd(RMul(input, RSub(One, params.wet)),
                         RMul(lowpass_state, params.wet))]

\* the index apply_delay reads the delay line at (effects.rs:234-235)
DelayIndexUnclamped(p, params) ==
    AsUsize(RMul(params.time, R(p.sample_rate, 1)))

DelayIndex(p, params) ==
    Min(AsUsize(RMul(params.time, R(p.sample_rate, 1))), Len(p.delay_buffer) - 1)

\* apply_delay (effects.rs:233-242); indexing a VecDeque past its end panics
ApplyDelay(p, input, params) ==
    LET delay_samples == DelayIndex(p, params)
    IN  IF delay_samples >= Len(p.delay_buffer)
        THEN [p |-> p, output |-> input, panicked |-> TRUE, read |-> delay_samples]
        ELSE LET delayed == p.delay_buffer[delay_samples + 1]
             IN  [p |-> [p EXCEPT !.delay_buffer =
                               CycleBuffer(@, RAdd(input, RMul(delayed, params.feedback)))],
                  output |-> RAdd(RMul(input, RSub(One, params.wet)),
                                  RMul(delayed, params.wet)),
                  panicked |-> FALSE,
                  read |-> delay_samples]

RECURSIVE Combs(_, _, _, _, _)
\* the loop over the eight comb filters from comb i on (effects.rs:247-258),
\* p and output being the processor and the sum before comb i
Combs(p, i, input, params, output) ==
    IF i > 8 THEN [p |-> p, output |-> output]
    ELSE CHOOSE r \in
           {LET delayed == Back(q.comb_buffers[i])
                state == RAdd(RMul(delayed, RSub(One, params.damping)),
                              RMul(q.comb_filter_state[i], params.damping))
                feedback == RMul(state, params.room_size)
            IN  Combs([q EXCEPT !.comb_filter_state[i] = state,
                                !.comb_buffers[i] = CycleBuffer(@, RAdd(input, feedback))],
                      i + 1, input, params, RAdd(o, delayed))
            : q \in {p}, o \in {output}} : TRUE

RECURSIVE Allpasses(_, _, _)
\* the loop over the allpass buffers from buffer i on (effects.rs:262-267)
Allpasses(p, i, output) ==
    CHOOSE r \in
      {IF i > Len(q.allpass_buffers) THEN [p |-> q, output |-> o]
       ELSE LET delayed == Back(q.allpass_buffers[i])
                new_val == RAdd(o, RMul(delayed, R(1, 2)))
            IN  Allpasses([q EXCEPT !.allpass_buffers[i] = CycleBuffer(@, new_val)],
                          i + 1, RSub(delayed, RMul(o, R(1, 2))))
       : q \in {p}, o \in {output}} : TRUE

\* apply_reverb (effects.rs:244-270)
ApplyReverb(p, input, params) ==
    LET combs == Combs(p, 1, input, params, Zero)
        all == Allpasses(combs.p, 1, RDiv(combs.output, R(8, 1)))
    IN  [p |-> all.p,
         output |-> RAdd(RMul(input, RSub(One, params.wet)),
                         RMul(all.output, params.wet))]

\* `output = self.apply_filter(output, filter)` when the chain has a filter
\* (effects.rs:146-148); s is the processor and `output` before the statement
FilterStep(s, effects) ==
    IF effects.filter = None THEN s
    ELSE CHOOSE t \in {[s EXCEPT !.p = r.p, !.output = r.output]
                       : r \in {ApplyFilter(s.p, s.output, effects.filter[1])}} : TRUE

\* effects.rs:150-152
DistortionStep(s, effects) ==
    IF effects.distortion = None THEN s
    ELSE CHOOSE t \in {[s EXCEPT !.p = r.p, !.output = r.output]
                       : r \in {ApplyDistortion(s.p, s.output, effects.distortion[1])}} : TRUE

\* effects.rs:154-156; `read` is the index the delay line was read at
DelayStep(s, effects) ==
    IF effects.delay = None THEN s
    ELSE CHOOSE t \in {[s EXCEPT !.p = r.p, !.output = r.output,
                                 !.panicked = r.panicked, !.read = Some(r.read)]
                       : r \in {ApplyDelay(s.p, s.output, effects.delay[1])}} : TRUE

\* effects.rs:158-160; not reached when apply_delay panicked
ReverbStep(s, effects) ==
    IF effects.reverb = None \/ s.panicked THEN s
    ELSE CHOOSE t \in {[s EXCEPT !.p = r.p, !.output = r.output]
                       : r \in {ApplyReverb(s.p, s.output, effects.reverb[1])}} : TRUE

\* `let mut output = input` (effects.rs:143)
ProcessEntry(p, input) ==
    [p |-> p, output |-> input, panicked |-> FALSE, read |-> None]

\* process with the delay applied before the distortion
ProcessDelayFirst(p, input, effects) ==
    ReverbStep(DistortionStep(DelayStep(FilterStep(ProcessEntry(p, input), effects),
                                        effects), effects), effects)

\* EffectsProcessor::process (effects.rs:142-163); a panic in apply_delay
\* unwinds out of process
Process(p, input, effects) ==
    ReverbStep(DelayStep(DistortionStep(FilterStep(ProcessEntry(p, input), effects),
                                        effects), effects), effects)

\* the sample rates an EffectsProcessor is built for
EffectRates == {10, 441}

FilterArgs(sr) == {[cutoff |-> R(sr, 4), resonance |-> One, filter_type |-> "LowPass"]}

DistortionArgs == {[drive |-> R(2, 1), tone |-> R(1, 2), wet |-> R(1, 2)]}

DelayTimes == {R(-1, 1), R(0, 1), R(1, 100), R(1, 5), R(5, 2)}

DelayArgs == {[time |-> t, feedback |-> R(1, 2), wet |-> One] : t \in DelayTimes}

ReverbArgs == {[room_size |-> R(1, 2), damping |-> R(1, 2), wet |-> R(1, 2),
                width |-> One]}

\* Option<T> over a set of values
OptionOf(S) == {None} \cup {Some(v) : v \in S}

\* the EffectsChain values (effects.rs:87-94) the processor is run with
Chains(sr) ==
    [filter : OptionOf(FilterArgs(sr)), distortion : OptionOf(DistortionArgs),
     delay : OptionOf(DelayArgs), reverb : OptionOf(ReverbArgs)]

\* the input signal: a burst of `burst` samples of value 1, then silence
BurstLengths == {1, 2}

MaxCalls == 12

MaxShort == 3

\* the number of calls a chain is run for: the filter and the distortion
\* make the fractions grow, a chain with either of them is run for
\* MaxShort calls
CallLimit(effects) ==
    IF effects.filter # None \/ effects.distortion # None THEN MaxShort ELSE MaxCalls

InputSample(burst, n) == IF n < burst THEN One ELSE Zero

\* a fresh processor, as render builds one for a track with a non-empty
\* chain (engine.rs:502-503); `panicked` records a panic of the last call,
\* `read` the index at which it read the delay line
InitEffects ==
    /\ rstate = RenderIdle
    /\ nbuf = None
    /\ bmi = None
    /\ env = None
    /\ th = None
    /\ gain = None
    /\ \E sr \in EffectRates, burst \in BurstLengths :
         \E effects \in Chains(sr) :
            /\ EngineNew(sr)
            /\ fx = Some([p |-> NewEffectsProcessor(sr), effects |-> effects,
                       burst |-> burst, input |-> <<>>, output |-> <<>>,
                       panicked |-> FALSE, read |-> None])

\* one call of process on the next sample of the signal (engine.rs:516-518)
ProcessSample ==
    /\ fx # None
    /\ ~fx[1].panicked
    /\ Len(fx[1].input) < CallLimit(fx[1].effects)
    /\ LET x == InputSample(fx[1].burst, Len(fx[1].input))
           r == Process(fx[1].p, x, fx[1].effects)
       IN  fx' = Some([fx[1] EXCEPT !.p = r.p,
                                    !.input = Append(@, x),
                                    !.output = IF r.panicked THEN @ ELSE Append(@, r.output),
                                    !.panicked = r.panicked,
                                    !.read = r.read])
    /\ UNCHANGED <<engine_vars, rstate, nbuf, bmi, env, th, gain>>

NextEffects == ProcessSample

SpecEffects == InitEffects /\ [][NextEffects]_vars

----------------------------------------------------------------------------
(* The envelope generator (engine.rs:699-716) on its own.  An f32 that is   *)
(* not finite is the fraction 0/0 (NaN), 1/0 (+inf) or -1/0 (-inf).         *)

NaN == R(0, 0)

IsFinite(x) == x.d # 0

\* a / b in f32 for finite a and b >= 0: a division by 0.0 gives NaN or an
\* infinity
FDiv(a, b) ==
    IF b.n = 0
    THEN IF a.n = 0 THEN NaN ELSE IF a.n > 0 THEN R(1, 0) ELSE R(-1, 0)
    ELSE RDiv(a, b)

\* 1.0 - x in f32
OneMinus(x) == IF IsFinite(x) THEN RSub(One, x) ELSE R(0 - x.n, 0)

\* s * x in f32 for a finite s
FMul(s, x) ==
    IF IsFinite(x) THEN RMul(s, x)
    ELSE IF s.n = 0 \/ x.n = 0 THEN NaN
    ELSE IF s.n > 0 THEN x ELSE R(0 - x.n, 0)

\* the branch calculate_envelope_static takes (engine.rs:705-715)
EnvelopeBranch(time, duration, instr) ==
    LET attack_end == instr.attack
        decay_end == RAdd(attack_end, instr.decay)
        release_start == RSub(duration, instr.release)
    IN  IF RLt(time, attack_end) THEN "attack"
        ELSE IF RLt(time, decay_end) THEN "decay"
        ELSE IF RLt(time, release_start) THEN "sustain"
        ELSE "release"

\* calculate_envelope_static (engine.rs:699-716)
calculate_envelope_static(time, duration, instr) ==
    LET attack_end == instr.attack
        decay_end == RAdd(attack_end, instr.decay)
        release_start == RSub(duration, instr.release)
    IN  IF RLt(time, attack_end) THEN FDiv(time, attack_end)
        ELSE IF RLt(time, decay_end)
             THEN OneMinus(FMul(RSub(One, instr.sustain),
                                FDiv(RSub(time, attack_end), instr.decay)))
        ELSE IF RLt(time, release_start) THEN instr.sustain
        ELSE FMul(instr.sustain,
                  OneMinus(FDiv(RSub(time, release_start), instr.release)))

\* the ADSR settings, note durations and times the envelope is called with
EnvSeconds == {R(0, 1), R(1, 4)}

EnvSustains == {R(0, 1), R(1, 2), One}

EnvDurations == {R(1, 4), R(1, 2), One}

EnvTimes == {R(0, 1), R(1, 8), R(1, 4), R(3, 8), R(1, 2), R(3, 4), One}

InitEnvelope ==
    /\ EngineNew(48000)
    /\ rstate = RenderIdle
    /\ nbuf = None
    /\ bmi = None
    /\ fx = None
    /\ th = None
    /\ gain = None
    /\ \E attack \in EnvSeconds, decay \in EnvSeconds, sustain \in EnvSustains,
          release \in EnvSeconds, duration \in EnvDurations, time \in EnvTimes :
            /\ RLeq(time, duration)
            /\ env = Some([time |-> time, duration |-> duration,
                           instr |-> [attack |-> attack, decay |-> decay,
                                      sustain |-> sustain, release |-> release],
                           value |-> None])

\* the call returns
CalculateEnvelope ==
    /\ env # None
    /\ env[1].value = None
    /\ env' = Some([env[1] EXCEPT !.value =
                        Some(calculate_envelope_static(env[1].time, env[1].duration,
                                                       env[1].instr))])
    /\ UNCHANGED <<engine_vars, rstate, nbuf, bmi, fx, th, gain>>

NextEnvelope == CalculateEnvelope

SpecEnvelope == InitEnvelope /\ [][NextEnvelope]_vars

----------------------------------------------------------------------------
(* The context mutex (engine.rs:59) between the control thread, which runs  *)
(* the engine's methods statement by statement, and the driver's callback   *)
(* thread.  `mutex` is the thread that holds the lock, `pc` the statement   *)
(* the control thread is at in the call `op`, `cb` the callback's position: *)
(* "lock" when it has been called and is in ctx.lock() (engine.rs:255),     *)
(* "frames" when it holds the lock.                                         *)

\* the calls that lock, read or update the context, and return
\* (engine.rs:166-241)
SetterOps ==
    {"set_loop_enabled", "pause", "resume", "set_master_volume",
     "set_master_pitch", "set_track_enabled", "set_track_volume",
     "interpolate_track_volume", "get_playback_position", "get_playback_state"}

\* SynthEngine::new: no stream, no context, nobody at the mutex
NewThreads ==
    [mutex |-> "free", pc |-> "idle", op |-> "", cb |-> "idle",
     stream |-> FALSE, context |-> FALSE]

\* the control thread enters a call
Call(op, pc) ==
    /\ th # None
    /\ th[1].pc = "idle"
    /\ th' = Some([th[1] EXCEPT !.op = op, !.pc = pc])
    /\ UNCHANGED <<engine_vars, rstate, nbuf, bmi, fx, env, gain>>

\* a step of the control thread from `pc` that needs `guard`
ControlStep(pc, guard, next) ==
    /\ th # None
    /\ th[1].pc = pc
    /\ guard
    /\ th' = Some(next)
    /\ UNCHANGED <<engine_vars, rstate, nbuf, bmi, fx, env, gain>>

\* stop, and play_arrangement, which begins with self.stop()
\* (engine.rs:125, 188)
CallStop == Call("stop", "stop_drop")

CallPlay == Call("play_arrangement", "stop_drop")

CallCrossfade == Call("crossfade_to", "xf_lock")

CallSetter(op) == Call(op, "set_lock")

\* stop: `if let Some(stream) = self.stream.take() { drop(stream); }`
\* (engine.rs:189-191); dropping the stream ends the callback thread, which
\* takes until a callback that is under way has returned
DropStream ==
    ControlStep("stop_drop", th[1].stream => th[1].cb = "idle",
                [th[1] EXCEPT !.stream = FALSE, !.pc = "stop_lock"])

\* stop: `*self.playback_context.lock().unwrap() = None` (engine.rs:192):
\* lock, ...
StopLock ==
    ControlStep("stop_lock", th[1].mutex = "free",
                [th[1] EXCEPT !.mutex = "control", !.pc = "stop_clear"])

\* ... clear the context and drop the guard at the end of the statement;
\* stop returns, to its caller or into play_arrangement
StopClear ==
    ControlStep("stop_clear", TRUE,
                [th[1] EXCEPT !.context = FALSE, !.mutex = "free",
                              !.pc = IF th[1].op = "stop" THEN "idle" ELSE "play_lock"])

\* play_arrangement: `*self.playback_context.lock().unwrap() = Some(context)`
\* (engine.rs:142): lock, ...
PlayLock ==
    ControlStep("play_lock", th[1].mutex = "free",
                [th[1] EXCEPT !.mutex = "control", !.pc = "play_store"])

\* ... store the context and drop the guard
PlayStore ==
    ControlStep("play_store", TRUE,
                [th[1] EXCEPT !.context = TRUE, !.mutex = "free", !.pc = "play_start"])

\* play_arrangement: `self.start_stream()?` (engine.rs:143), which opens the
\* stream or fails; no lock is taken
StartStream(ok) ==
    ControlStep("play_start", TRUE, [th[1] EXCEPT !.stream = ok, !.pc = "idle"])

\* crossfade_to: `let mut ctx_lock = self.playback_context.lock().unwrap()`
\* (engine.rs:150)
CrossfadeLock ==
    ControlStep("xf_lock", th[1].mutex = "free",
                [th[1] EXCEPT !.mutex = "control", !.pc = "xf_test"])

\* mutant of CrossfadeFallback: the guard is still alive when
\* play_arrangement is called
CrossfadeFallbackLocked(t) == [t EXCEPT !.pc = "stop_drop"]

\* crossfade_to without a context: the block that holds ctx_lock ends
\* (engine.rs:160), then `self.play_arrangement(new_arrangement)?`
\* (engine.rs:162)
CrossfadeFallback(t) == [t EXCEPT !.mutex = "free", !.pc = "stop_drop"]

\* crossfade_to: `if let Some(ctx) = ctx_lock.as_mut()` (engine.rs:152-159):
\* with a context, install the crossfade and return, which drops the guard
CrossfadeTest ==
    ControlStep("xf_test", TRUE,
                IF th[1].context
                THEN [th[1] EXCEPT !.mutex = "free", !.pc = "idle"]
                ELSE CrossfadeFallback(th[1]))

\* a setter or getter: `self.playback_context.lock().unwrap()` ...
SetterLock ==
    ControlStep("set_lock", th[1].mutex = "free",
                [th[1] EXCEPT !.mutex = "control", !.pc = "set_act"])

\* ... act on the context and drop the guard
SetterAct ==
    ControlStep("set_act", TRUE, [th[1] EXCEPT !.mutex = "free", !.pc = "idle"])

\* the driver calls the callback, which goes into ctx.lock() (engine.rs:255)
CallbackCalled ==
    /\ th # None
    /\ th[1].stream
    /\ th[1].cb = "idle"
    /\ th' = Some([th[1] EXCEPT !.cb = "lock"])
    /\ UNCHANGED <<engine_vars, rstate, nbuf, bmi, fx, env, gain>>

\* the callback gets the lock
CallbackLocked ==
    /\ th # None
    /\ th[1].cb = "lock"
    /\ th[1].mutex = "free"
    /\ th' = Some([th[1] EXCEPT !.cb = "frames", !.mutex = "callback"])
    /\ UNCHANGED <<engine_vars, rstate, nbuf, bmi, fx, env, gain>>

\* the callback has filled the buffer and returns, which drops the guard
CallbackDone ==
    /\ th # None
    /\ th[1].cb = "frames"
    /\ th' = Some([th[1] EXCEPT !.cb = "idle", !.mutex = "free"])
    /\ UNCHANGED <<engine_vars, rstate, nbuf, bmi, fx, env, gain>>

InitThreads ==
    /\ EngineNew(48000)
    /\ rstate = RenderIdle
    /\ nbuf = None
    /\ bmi = None
    /\ fx = None
    /\ env = None
    /\ th = Some(NewThreads)
    /\ gain = None

ControlThread ==
    \/ CallStop
    \/ CallPlay
    \/ CallCrossfade
    \/ \E op \in SetterOps : CallSetter(op)
    \/ DropStream
    \/ StopLock
    \/ StopClear
    \/ PlayLock
    \/ PlayStore
    \/ \E ok \in BOOLEAN : StartStream(ok)
    \/ CrossfadeLock
    \/ CrossfadeTest
    \/ SetterLock
    \/ SetterAct

CallbackThread ==
    \/ CallbackCalled
    \/ CallbackLocked
    \/ CallbackDone

NextThreads == ControlThread \/ CallbackThread

SpecThreads == InitThreads /\ [][NextThreads]_vars

----------------------------------------------------------------------------
(* The gain of a placed track's notes.  Both renderers multiply a note's    *)
(* sample by envelope * velocity * volume; `volume` is put together from    *)
(* the instrument's volume, the placement's volume override and the track   *)
(* volume of the dynamic parameters.                                        *)

\* the offline renderer (engine.rs:485-499, 597): the override replaces the
\* instrument's volume in the copy of the track, `t.instrument.volume *=
\* track_vol` follows, and synthesize_track_into multiplies by
\* track.instrument.volume
OfflineVolume(instrument_volume, overrides, track_vol) ==
    RMul(IF overrides.volume # None THEN overrides.volume[1] ELSE instrument_volume,
         track_vol)

\* the realtime synthesizer (engine.rs:416, 447):
\* track.instrument.volume * overrides.volume.unwrap_or(1.0) * track_vol
RealtimeVolume(instrument_volume, overrides, track_vol) ==
    RMul(RMul(instrument_volume,
              IF overrides.volume # None THEN overrides.volume[1] ELSE One),
         track_vol)

\* Instrument::default() has volume 0.5 (instrument.rs:41); a "volume:" line
\* of the melody sets another (track.rs:193)
InstrumentVolumes == {R(1, 2), One, R(3, 2)}

\* "volume=<v>" of a track line (arrangement.rs:78-79), or none
VolumeOverrides == {None, Some(R(1, 2)), Some(One), Some(R(2, 1))}

\* params.track_volumes, which set_track_volume keeps in 0..2
\* (engine.rs:213-217); 1.0 for a track it has no entry for
TrackVolumes == {Zero, R(1, 2), One, R(2, 1)}

InitGain ==
    /\ EngineNew(48000)
    /\ rstate = RenderIdle
    /\ nbuf = None
    /\ bmi = None
    /\ fx = None
    /\ env = None
    /\ th = None
    /\ \E instrument_volume \in InstrumentVolumes, volume \in VolumeOverrides,
          track_vol \in TrackVolumes :
            gain = Some([instrument_volume |-> instrument_volume,
                         overrides |-> [NoOverrides EXCEPT !.volume = volume],
                         track_vol |-> track_vol,
                         offline |-> None, realtime |-> None])

\* the offline renderer renders a note of the track
RenderNote ==
    /\ gain # None
    /\ gain[1].offline = None
    /\ gain' = Some([gain[1] EXCEPT !.offline =
                        Some(OfflineVolume(gain[1].instrument_volume,
                                           gain[1].overrides, gain[1].track_vol))])
    /\ UNCHANGED <<engine_vars, rstate, nbuf, bmi, fx, env, th>>

\* the realtime synthesizer plays a note of the track
PlayNote ==
    /\ gain # None
    /\ gain[1].realtime = None
    /\ gain' = Some([gain[1] EXCEPT !.realtime =
                        Some(RealtimeVolume(gain[1].instrument_volume,
                                            gain[1].overrides, gain[1].track_vol))])
    /\ UNCHANGED <<engine_vars, rstate, nbuf, bmi, fx, env, th>>

NextGain == RenderNote \/ PlayNote

SpecGain == InitGain /\ [][NextGain]_vars

----------------------------------------------------------------------------
(* The realtime player's specification *)

Init ==
    /\ EngineNew(2)
    /\ rstate = RenderIdle
    /\ LibIdle

Next ==
    \/ Stop
    \/ \E name \in Playable, ok \in BOOLEAN : PlayArrangement(name, ok)
    \/ \E name \in Playable, duration \in Durations, ok \in BOOLEAN :
          CrossfadeTo(name, duration, ok)
    \/ Pause
    \/ Resume
    \/ \E enabled \in BOOLEAN : SetLoopEnabled(enabled)
    \/ \E volume \in VolumeArgs : SetMasterVolume(volume)
    \/ \E pitch \in PitchArgs : SetMasterPitch(pitch)
    \/ \E track_name \in SetterTracks, enabled \in BOOLEAN :
          SetTrackEnabled(track_name, enabled)
    \/ \E track_name \in SetterTracks, volume \in VolumeArgs :
          SetTrackVolume(track_name, volume)
    \/ \E track_name \in SetterTracks, target \in VolumeArgs,
          duration \in InterpolateDurations :
          InterpolateTrackVolume(track_name, target, duration)
    \/ \E n \in 1..MaxFrames : CallbackBegin(n)
    \/ CallbackFrame
    \/ CallbackReturn

Spec == Init /\ [][Next]_vars

\* The player at the device rate of 48 kHz, late in a long crossfade:
\* new(); play_arrangement(L) on the 400 s arrangement; crossfade_to(A, 380.0)
\* before the first callback, which gives duration_samples =
\* floor(380.0 * 48000) = 18240000; then k callback frames (about 349.5 s
\* of playback), each of which added 1.0 exactly to progress and one to
\* current_sample, for k a little below 2^24.
LongFadeDuration == R(380, 1)

LongFadeFrames == {F32Exact - 4, F32Exact - 3}

InitLongFade ==
    /\ sample_rate = 48000
    /\ \E k \in LongFadeFrames :
          playback_context =
              Some([FreshContext("L") EXCEPT
                       !.current_sample = k,
                       !.crossfade_state =
                           Some([NewCrossfade("A", LongFadeDuration, 48000)
                                    EXCEPT !.progress = k])])
    /\ stream = TRUE
    /\ open_streams = 1
    /\ cb_len = 0
    /\ data = <<>>
    /\ last_call = None
    /\ rstate = RenderIdle
    /\ LibIdle

NextLongFade ==
    \/ Pause
    \/ Resume
    \/ \E n \in 1..MaxFrames : CallbackBegin(n)
    \/ CallbackFrame
    \/ CallbackReturn

SpecLongFade == InitLongFade /\ [][NextLongFade]_vars

\* The player while a crossfade runs undisturbed: play_arrangement on an
\* idle engine, crossfade_to on a Playing context that has no crossfade yet,
\* set_loop_enabled at any time, and the driver, which goes on calling the
\* callback for as long as the stream is open (cpal's output thread).
NextFade ==
    \/ \E name \in Playable :
          playback_context = None /\ PlayArrangement(name, TRUE)
    \/ \E name \in Playable, duration \in Durations :
          /\ playback_context # None
          /\ playback_context[1].state = Playing
          /\ playback_context[1].crossfade_state = None
          /\ CrossfadeTo(name, duration, TRUE)
    \/ \E enabled \in BOOLEAN : SetLoopEnabled(enabled)
    \/ \E n \in 1..MaxFrames : CallbackBegin(n)
    \/ CallbackFrame
    \/ CallbackReturn

SpecFade ==
    /\ Init
    /\ [][NextFade]_vars
    /\ WF_vars(\E n \in 1..MaxFrames : CallbackBegin(n))
    /\ WF_vars(CallbackFrame)
    /\ WF_vars(CallbackReturn)

----------------------------------------------------------------------------
(* Claims about the realtime player *)

\* a step of the callback's frame loop
FrameStep == cb_len > 0 /\ Len(data') = Len(data) + 1

\* floor(total_length * sr) of the arrangement a context plays
TotalSamples(c) == FloorMul(Score(c.arrangement).total_length, sample_rate)

\* C2: pause() changes the state only from Playing to Paused, resume() only
\* from Paused to Playing; in every other situation (no context, Stopped at
\* the end, pause on Paused, resume on Playing) the call changes nothing of
\* the context: state, position and crossfade stay as they were.
C2_PauseResume ==
    [][/\ Pause =>
            IF playback_context # None /\ playback_context[1].state = Playing
            THEN playback_context' =
                     Some([playback_context[1] EXCEPT !.state = Paused])
            ELSE playback_context' = playback_context
       /\ Resume =>
            IF playback_context # None /\ playback_context[1].state = Paused
            THEN playback_context' =
                     Some([playback_context[1] EXCEPT !.state = Playing])
            ELSE playback_context' = playback_context]_vars

\* C2's case: a context paused in the middle of a crossfade
C2_Witness ==
    /\ playback_context # None
    /\ playback_context[1].state = Paused
    /\ playback_context[1].current_sample > 0
    /\ playback_context[1].crossfade_state # None

\* C3: with looping off, a frame moves a Playing context to Stopped exactly
\* when it leaves current_sample at or beyond floor(total_length * sr), never
\* on an earlier frame; and only a frame of the callback makes a live context
\* Stopped.
C3_StopAtEnd ==
    [][/\ (FrameStep /\ playback_context[1].state = Playing
                     /\ ~playback_context[1].loop_enabled) =>
            (playback_context'[1].state = Stopped
                <=> playback_context'[1].current_sample
                        >= TotalSamples(playback_context'[1]))
       /\ (FrameStep /\ playback_context[1].state = Playing
                     /\ ~playback_context[1].loop_enabled
                     /\ playback_context[1].current_sample
                            < TotalSamples(playback_context'[1])) =>
            (playback_context'[1].state = Stopped
                <=> playback_context'[1].current_sample
                        = TotalSamples(playback_context'[1]))
       /\ (/\ playback_context' # None
           /\ playback_context'[1].state = Stopped
           /\ (playback_context = None \/ playback_context[1].state # Stopped)) =>
            (FrameStep /\ playback_context[1].state = Playing
                       /\ ~playback_context[1].loop_enabled)]_vars

\* C3's case: the callback stopped the context on the frame that reached the
\* end of the arrangement
C3_Witness ==
    /\ playback_context # None
    /\ playback_context[1].state = Stopped
    /\ ~playback_context[1].loop_enabled
    /\ playback_context[1].current_sample = TotalSamples(playback_context[1])

\* C4: after stop(), whatever it was called on, get_playback_state() is
\* Stopped, get_playback_position() is 0, the context (with any pending
\* crossfade) is gone and no stream handle or open stream remains.
C4_AfterStop ==
    (last_call # None /\ last_call[1].op = "stop") =>
        /\ GetPlaybackState(playback_context) = Stopped
        /\ GetPlaybackPosition(playback_context, sample_rate).n = 0
        /\ playback_context = None
        /\ ~stream
        /\ open_streams = 0

\* C4's case: stop() was called in the middle of a crossfade, past position 0
C4_Witness ==
    /\ last_call # None
    /\ last_call[1].op = "stop"
    /\ last_call[1].saw.context
    /\ last_call[1].saw.crossfade
    /\ last_call[1].saw.position > 0

\* C5: play_arrangement(A) leaves a fresh context whatever was there before:
\* Playing at sample 0, looping off, no crossfade, master volume and pitch 1,
\* track_enabled = true and track_volume = 1 for exactly A's track names; and
\* at most one output stream is open.
C5_PlayIsFresh ==
    (last_call # None /\ last_call[1].op = "play") =>
        /\ playback_context # None
        /\ LET c == playback_context[1]
               names == TrackNames(Score(last_call[1].arg))
           IN  /\ c.arrangement = last_call[1].arg
               /\ c.state = Playing
               /\ c.current_sample = 0
               /\ ~c.loop_enabled
               /\ c.crossfade_state = None
               /\ c.dynamic_params.master_volume = R(1, 1)
               /\ c.dynamic_params.master_pitch = R(1, 1)
               /\ DOMAIN c.dynamic_params.track_enabled = names
               /\ DOMAIN c.dynamic_params.track_volumes = names
               /\ \A t \in names : /\ c.dynamic_params.track_enabled[t]
                                   /\ c.dynamic_params.track_volumes[t] = R(1, 1)
               /\ c.param_interpolators = EmptyMap
        /\ open_streams <= 1
        /\ open_streams = IF stream THEN 1 ELSE 0

\* C5's case: play_arrangement replaced a looping context with changed
\* volumes or mutes, past position 0, in the middle of a crossfade
C5_Witness ==
    /\ last_call # None
    /\ last_call[1].op = "play"
    /\ last_call[1].saw.context
    /\ last_call[1].saw.loop_enabled
    /\ last_call[1].saw.crossfade
    /\ last_call[1].saw.custom
    /\ last_call[1].saw.position > 0

\* the position a frame computes before its loop/stop logic
Advanced == playback_context[1].current_sample + 1

\* the frame the callback wrote last
LastFrame == data[Len(data)]

RECURSIVE RunFrames(_, _, _)
\* the context after n frames of the frame loop
RunFrames(c, sr, n) == IF n = 0 THEN c ELSE RunFrames(Frame(c, sr).ctx, sr, n - 1)

\* C6: while a crossfade is active and the state is Playing, every frame
\* adds exactly one to its progress, or, when that reaches duration_samples,
\* installs the target and clears the crossfade in the same step; progress
\* never decreases.
C6_ProgressByOne ==
    [][(/\ FrameStep
        /\ playback_context[1].state = Playing
        /\ playback_context[1].crossfade_state # None) =>
         LET crossfade == playback_context[1].crossfade_state[1]
             after == playback_context'[1]
         IN  IF crossfade.progress + 1 >= crossfade.duration_samples
             THEN /\ after.crossfade_state = None
                  /\ after.arrangement = crossfade.target_arrangement
             ELSE /\ after.crossfade_state # None
                  /\ after.crossfade_state[1].progress = crossfade.progress + 1
                  /\ after.arrangement = playback_context[1].arrangement]_vars

\* C7 as claimed: one frame after crossfade_to(A, 0.0) the context is the one
\* play(A) followed by one frame leaves.
C7_SameAsPlay ==
    [][(/\ FrameStep
        /\ playback_context[1].crossfade_state # None
        /\ playback_context[1].crossfade_state[1].duration_samples = 0) =>
         playback_context' =
             Some(Frame(FreshContext(
                            playback_context[1].crossfade_state[1].target_arrangement),
                        sample_rate).ctx)]_vars

\* C7, amended: one frame after crossfade_to(A, 0.0) on a Playing context, A
\* is the current arrangement and no crossfade is pending, as after play(A);
\* the loop flag and the dynamic parameters are the previous context's and
\* the position is the previous one advanced by the frame.  The context is
\* the one of play(A) plus one frame if the previous context was as its own
\* play left it, with A's track names; and with no context crossfade_to is
\* play_arrangement.
C7_KeepsContext ==
    /\ [][(/\ FrameStep
           /\ playback_context[1].crossfade_state # None
           /\ playback_context[1].crossfade_state[1].duration_samples = 0) =>
            LET before == playback_context[1]
                target == before.crossfade_state[1].target_arrangement
                after == playback_context'[1]
            IN  /\ after.arrangement = target
                /\ after.crossfade_state = None
                /\ after.loop_enabled = before.loop_enabled
                /\ after.dynamic_params = before.dynamic_params
                /\ ~before.loop_enabled =>
                      after.current_sample = before.current_sample + 1
                /\ (/\ [before EXCEPT !.crossfade_state = None]
                          = FreshContext(before.arrangement)
                    /\ TrackNames(Score(before.arrangement))
                          = TrackNames(Score(target))) =>
                      after = Frame(FreshContext(target), sample_rate).ctx]_vars
    /\ [](/\ last_call # None
          /\ last_call[1].op = "crossfade_to"
          /\ ~last_call[1].saw.context
          => playback_context = Some(FreshContext(last_call[1].arg)))

\* C7's case: the frame after crossfade_to(A, 0.0) ran on a looping context
\* with changed parameters, past position 0
C7_Witness ==
    /\ data # <<>>
    /\ LastFrame.mix.t # None
    /\ LastFrame.mix.t[1].d = 0
    /\ playback_context[1].crossfade_state = None
    /\ playback_context[1].loop_enabled
    /\ playback_context[1].current_sample > 1
    /\ playback_context[1].dynamic_params
          # FreshContext(playback_context[1].arrangement).dynamic_params

\* C8: on every frame of an active crossfade the output mixes the current
\* and the target arrangement, both synthesized at the frame's sample index,
\* with weights 1 - t and t, where t = progress / duration_samples is a
\* number read before progress advances: 0 on the crossfade's first frame
\* and 1/2 when progress = duration_samples / 2.
C8_MixFormula ==
    [][(FrameStep /\ playback_context[1].crossfade_state # None) =>
         LET before == playback_context[1]
             crossfade == before.crossfade_state[1]
             out == data'[Len(data')]
         IN  /\ out.mix.x = SynthesizeSingleSample(Score(before.arrangement),
                                before.current_sample, before.dynamic_params)
             /\ out.mix.target =
                    Some(SynthesizeSingleSample(Score(crossfade.target_arrangement),
                             before.current_sample, before.dynamic_params))
             /\ out.mix.t # None
             /\ ~IsNaN(out.mix.t[1])
             /\ out.mix.t[1].d > 0
             /\ out.mix.t[1].n * crossfade.duration_samples
                   = crossfade.progress * out.mix.t[1].d
             /\ crossfade.progress = 0 => out.mix.t[1].n = 0
             /\ 2 * crossfade.progress = crossfade.duration_samples =>
                   2 * out.mix.t[1].n = out.mix.t[1].d]_vars

\* C9: with loop_enabled and a loop point, a frame that advances the
\* position to the loop end or beyond sets current_sample to
\* floor(start * sr), and any other frame just advances it; with the loop
\* point 0..1 s, 3 * sr / 2 frames from position 0 end at floor(sr / 2).
C9_LoopPointJump ==
    /\ [][(/\ FrameStep
           /\ playback_context'[1].loop_enabled
           /\ Score(playback_context'[1].arrangement).loop_point # None) =>
            LET loop_point == Score(playback_context'[1].arrangement).loop_point[1]
            IN  playback_context'[1].current_sample =
                    IF Advanced * loop_point.end.d >= loop_point.end.n * sample_rate
                    THEN FloorMul(loop_point.start, sample_rate)
                    ELSE Advanced]_vars
    /\ [](/\ playback_context # None
          /\ playback_context[1].state = Playing
          /\ playback_context[1].loop_enabled
          /\ playback_context[1].crossfade_state = None
          /\ playback_context[1].current_sample = 0
          /\ Score(playback_context[1].arrangement).loop_point
                = Some(LoopPoint(R(0, 1), R(1, 1)))
          => RunFrames(playback_context[1], sample_rate, (3 * sample_rate) \div 2)
                 .current_sample = sample_rate \div 2)

\* C9's case: inside one buffer the position went from the last sample
\* before the loop end back to the loop start, and on
C9_Witness ==
    /\ Len(data) = 2
    /\ playback_context[1].arrangement = "C"
    /\ playback_context[1].loop_enabled
    /\ data[1].mix.x.idx = 2
    /\ data[2].mix.x.idx = 1
    /\ playback_context[1].current_sample = 2

\* C10 as claimed: with loop_enabled, a frame on which the loop-point jump
\* does not fire wraps current_sample to 0 once it reaches
\* floor(total_length * sr).
C10_WrapAtTotal ==
    [][(/\ FrameStep
        /\ playback_context'[1].loop_enabled
        /\ LET loop_point == Score(playback_context'[1].arrangement).loop_point
           IN  \/ loop_point = None
               \/ Advanced * loop_point[1].end.d < loop_point[1].end.n * sample_rate
        /\ Advanced >= TotalSamples(playback_context'[1])) =>
         playback_context'[1].current_sample = 0]_vars

\* C10, amended: with loop_enabled and no loop point, current_sample wraps to
\* 0 once it reaches floor(total_length * sr) and otherwise advances by one;
\* with a loop point the wrap at total_length is never taken: a frame below
\* the loop end advances the position by one, also past total_length.
C10_WrapWithoutLoopPoint ==
    [][(FrameStep /\ playback_context'[1].loop_enabled) =>
         LET loop_point == Score(playback_context'[1].arrangement).loop_point
         IN  /\ loop_point = None =>
                   playback_context'[1].current_sample =
                       IF Advanced >= TotalSamples(playback_context'[1])
                       THEN 0 ELSE Advanced
             /\ (/\ loop_point # None
                 /\ Advanced * loop_point[1].end.d
                       < loop_point[1].end.n * sample_rate) =>
                   playback_context'[1].current_sample = Advanced]_vars

\* C10's case: a looping context with a loop point ran past total_length
\* without wrapping
C10_Witness ==
    /\ data # <<>>
    /\ playback_context[1].loop_enabled
    /\ Score(playback_context[1].arrangement).loop_point # None
    /\ playback_context[1].current_sample = LastFrame.mix.x.idx + 1
    /\ playback_context[1].current_sample >= TotalSamples(playback_context[1])

\* C11: the context is used under one mutex.  While the callback holds it
\* (from its entry to its return) the context changes by the callback's own
\* frames only and no control call starts or finishes; the callback takes
\* the context as the last control call left it; and every frame of the
\* buffer is computed from the settings of that context (volumes, mutes,
\* loop flag, pending crossfade), which the frames themselves never change.
C11_MutexExclusion ==
    [][/\ (cb_len > 0 /\ playback_context' # playback_context) => FrameStep
       /\ cb_len > 0 => (last_call' = last_call /\ stream' = stream)
       /\ (cb_len = 0 /\ cb_len' > 0) => playback_context' = playback_context
       /\ FrameStep =>
            LET before == playback_context[1]
                after == playback_context'[1]
                out == data'[Len(data')]
            IN  /\ out.master_volume = before.dynamic_params.master_volume
                /\ out.mix.x = SynthesizeSingleSample(Score(before.arrangement),
                                   before.current_sample, before.dynamic_params)
                /\ (out.mix.target # None) = (before.crossfade_state # None)
                /\ after.dynamic_params = before.dynamic_params
                /\ after.loop_enabled = before.loop_enabled]_vars

\* C11's case: a whole buffer was rendered with a master volume, a mute and
\* a loop flag set by control calls before the callback began
C11_Witness ==
    /\ cb_len = 2
    /\ Len(data) = 2
    /\ playback_context[1].loop_enabled
    /\ playback_context[1].dynamic_params.master_volume = R(2, 1)
    /\ "t2" \in DOMAIN playback_context[1].dynamic_params.track_enabled
    /\ ~playback_context[1].dynamic_params.track_enabled["t2"]
    /\ \A i \in 1..2 :
          /\ data[i].master_volume = R(2, 1)
          /\ "t2" \in DOMAIN data[i].mix.x.gains
          /\ data[i].mix.x.gains["t2"] = R(0, 1)

\* C12: every existing context has master_volume in [0, 2], master_pitch in
\* [1/2, 2] and every per-track volume in [0, 2], whatever control calls
\* were made.
C12_ParamsInRange ==
    playback_context # None =>
        LET params == playback_context[1].dynamic_params
        IN  /\ RLeq(R(0, 1), params.master_volume)
            /\ RLeq(params.master_volume, R(2, 1))
            /\ RLeq(R(1, 2), params.master_pitch)
            /\ RLeq(params.master_pitch, R(2, 1))
            /\ \A t \in DOMAIN params.track_volumes :
                  /\ RLeq(R(0, 1), params.track_volumes[t])
                  /\ RLeq(params.track_volumes[t], R(2, 1))

\* C13: a callback that finds no context, or a context whose state is not
\* Playing, writes 0 to every sample of its buffer: on entry the whole
\* buffer is zeroes, and a buffer holding a zero written that way holds
\* nothing else when the callback returns.
C13_SilentWhenNotPlaying ==
    /\ [][(/\ cb_len = 0
           /\ cb_len' > 0
           /\ \/ playback_context = None
              \/ playback_context[1].state # Playing) =>
            /\ Len(data') = cb_len'
            /\ \A i \in 1..cb_len' : data'[i].zero
            /\ playback_context' = playback_context]_vars
    /\ [](\A n \in 1..MaxFrames :
             /\ Len(ZeroFill(None, n)) = n
             /\ \A i \in 1..n : ZeroFill(None, n)[i].zero)
    /\ []((\E i \in 1..Len(data) : data[i].zero) =>
             /\ Len(data) = cb_len
             /\ \A i \in 1..Len(data) : data[i].zero)

\* C13's case: a stream is still running on a context that has reached its
\* end, and its callback has filled a buffer
C13_Witness ==
    /\ cb_len = 2
    /\ Len(data) = 2
    /\ data[1].zero
    /\ data[2].zero
    /\ playback_context # None
    /\ playback_context[1].state = Stopped

\* a crossfade to `name` is under way
Crossfading(name) ==
    /\ playback_context # None
    /\ playback_context[1].crossfade_state # None
    /\ playback_context[1].crossfade_state[1].target_arrangement = name

\* the context plays `name` and no crossfade is under way
CrossfadeDone(name) ==
    /\ playback_context # None
    /\ playback_context[1].crossfade_state = None
    /\ playback_context[1].arrangement = name

\* C25: while the callback keeps being called and nothing but
\* set_loop_enabled is called, a crossfade that crossfade_to started on a
\* Playing context completes: its target becomes the current arrangement
\* and crossfade_state becomes None.
C25_CrossfadeCompletes ==
    \A name \in Playable : Crossfading(name) ~> CrossfadeDone(name)

\* C26: when play_arrangement returns an AudioError the engine is stopped:
\* there is no context, get_playback_state() is Stopped and
\* get_playback_position() is 0.
C26_FailedPlayIsStopped ==
    (last_call # None /\ last_call[1].op = "play" /\ ~last_call[1].ok) =>
        /\ playback_context = None
        /\ GetPlaybackState(playback_context) = Stopped
        /\ GetPlaybackPosition(playback_context, sample_rate).n = 0

\* C28: with looping off and no crossfade pending, a frame of the callback
\* never moves current_sample from at or below floor(total_length * sr) of
\* the arrangement to beyond it, and get_playback_position() stays at or
\* below total_length: a context the callback has stopped is advanced no
\* further, whatever the number of frames in the buffer.
C28_NeverPastEnd ==
    [][(/\ FrameStep
        /\ ~playback_context[1].loop_enabled
        /\ playback_context[1].crossfade_state = None
        /\ playback_context[1].current_sample <= TotalSamples(playback_context[1])) =>
         /\ playback_context'[1].current_sample <= TotalSamples(playback_context'[1])
         /\ RLeq(GetPlaybackPosition(playback_context', sample_rate),
                 Score(playback_context'[1].arrangement).total_length)]_vars

----------------------------------------------------------------------------
(* Claims about the offline renderer *)

\* C1: when a render is done, every note or chord of every track has its
\* samples in the output from the index start_sample + (the sample counts of
\* the elements before it, rests included) on; in the example the second
\* note begins at index 96000.
C1_ElementsEmitted ==
    rstate.pc = "done" =>
        \A ti \in DOMAIN Score(rstate.arrangement).tracks :
            LET placed == Score(rstate.arrangement).tracks[ti]
                start_sample == FloorMul(placed.start_time, sample_rate)
            IN  \A j \in DOMAIN placed.track.sequence :
                    (/\ placed.track.sequence[j].kind # "Rest"
                     /\ ElementSamples(placed.track, placed.track.sequence[j],
                                       sample_rate) > 0) =>
                       \E run \in rstate.buffer :
                           /\ run.track = ti
                           /\ run.elem = j
                           /\ run.at = start_sample
                                        + CursorAt(placed.track, j, sample_rate)

\* C14: the normalisation divides every sample by the peak magnitude if the
\* peak exceeds 1 and otherwise returns the buffer as it is; the result has
\* no sample above 1 in magnitude, and normalising it again changes nothing.
C14_NormalizeIffPeakAboveOne ==
    (nbuf # None /\ nbuf[1].output # None) =>
        LET input == nbuf[1].input
            output == nbuf[1].output[1]
            loud == {i \in DOMAIN input : RLt(R(1, 1), RAbs(input[i]))}
        IN  /\ DOMAIN output = DOMAIN input
            /\ loud = {} => output = input
            /\ loud # {} =>
                  \E k \in loud :
                      /\ \A i \in DOMAIN input : RLeq(RAbs(input[i]), RAbs(input[k]))
                      /\ \A i \in DOMAIN input :
                            output[i].n * RAbs(input[k]).n * input[i].d
                               = input[i].n * RAbs(input[k]).d * output[i].d
            /\ \A i \in DOMAIN output : RLeq(RAbs(output[i]), R(1, 1))
            /\ nbuf[1].again # None => nbuf[1].again[1] = output

\* C14's case: a buffer with a peak above 1 was scaled, and the scaled
\* buffer went through the normalisation once more
C14_Witness ==
    /\ nbuf # None
    /\ nbuf[1].output # None
    /\ nbuf[1].again # None
    /\ Len(nbuf[1].input) = 3
    /\ nbuf[1].input[1] = R(-3, 1)
    /\ nbuf[1].input[2] = R(3, 2)
    /\ nbuf[1].output[1][1] = R(-1, 1)
    /\ nbuf[1].output[1][2] = R(1, 2)

\* the product total_length * sample_rate of the arrangement being rendered,
\* as a fraction
RenderLength ==
    R(Score(rstate.arrangement).total_length.n * sample_rate,
      Score(rstate.arrangement).total_length.d)

OnePassRuns(arrangement, ti, sr, len) ==
    LET placed == arrangement.tracks[ti]
        t == ApplyOverrides(placed)
        start_sample == FloorMul(placed.start_time, sr)
        track_total_samples == FloorMul(t.length, sr)
        offsets == {m * chunk_size : m \in 0..((track_total_samples - 1) \div chunk_size)}
    IN  UNION {
          {[track |-> ti, elem |-> run.elem,
            at |-> start_sample + sample_offset + run.at,
            n |-> Min(run.n, len - (start_sample + sample_offset + run.at))] :
              run \in {r \in SynthesizeTrackWindow(
                                Min(chunk_size, track_total_samples - sample_offset),
                                t, sample_offset, sr) :
                          start_sample + sample_offset + r.at < len}} :
          sample_offset \in {o \in offsets : o < track_total_samples}}

\* C22: the blocks of 1024 samples together hold what one pass over the
\* track gives: sample k of the track is in block k \div 1024 at index
\* k % 1024, for every k below the track's sample count, so the finished
\* output holds exactly the runs of a render in one pass.
C22_ChunksEqualOnePass ==
    rstate.pc = "done" =>
        rstate.buffer =
            UNION {OnePassRuns(Score(rstate.arrangement), ti, sample_rate, rstate.len) :
                      ti \in DOMAIN Score(rstate.arrangement).tracks}

\* C23: in the offline renderer a Note moves the track's cursor on by
\* floor(note.duration * beat_duration * sr) samples, whether the instrument
\* is synthesized or sampled.
C23_NoteAdvance ==
    rstate.pc # "idle" =>
        \A ti \in DOMAIN Score(rstate.arrangement).tracks :
            LET t == ApplyOverrides(Score(rstate.arrangement).tracks[ti])
            IN  \A j \in DOMAIN t.sequence :
                    t.sequence[j].kind = "Note" =>
                        CursorAt(t, j + 1, sample_rate) - CursorAt(t, j, sample_rate)
                            = FloorMul(R(t.sequence[j].duration.n * 60,
                                         t.sequence[j].duration.d * t.tempo),
                                       sample_rate)

----------------------------------------------------------------------------
(* Claims about the arrangement parser *)

\* C16: once an arrangement has a master_tempo, every placed track is timed
\* at that tempo, by the realtime synthesizer and by the offline renderer,
\* whatever override the track carries and wherever the master_tempo line
\* stands.
C16_MasterTempoForced ==
    (bmi # None /\ bmi[1].arrangement.master_tempo # None) =>
        \A i \in DOMAIN bmi[1].arrangement.tracks :
            /\ RealtimeTempo(bmi[1].arrangement.tracks[i])
                  = bmi[1].arrangement.master_tempo[1]
            /\ OfflineTempo(bmi[1].arrangement.tracks[i])
                  = bmi[1].arrangement.master_tempo[1]

\* the end of the i-th placed track of the arrangement being built
BmiEnd(i) ==
    RAdd(bmi[1].arrangement.tracks[i].start_time,
         bmi[1].arrangement.tracks[i].track.length)

\* C17: while an arrangement is built, total_length is the greatest
\* start_time + track.length of the tracks placed so far, 0 when there are
\* none, and no line makes it smaller.
C17_TotalLengthIsMaxEnd ==
    /\ [](bmi # None =>
            LET arrangement == bmi[1].arrangement
            IN  /\ arrangement.tracks = <<>> => arrangement.total_length = R(0, 1)
                /\ \A i \in DOMAIN arrangement.tracks :
                      RLeq(BmiEnd(i), arrangement.total_length)
                /\ arrangement.tracks # <<>> =>
                      \E i \in DOMAIN arrangement.tracks :
                          BmiEnd(i) = arrangement.total_length)
    /\ [][(bmi # None /\ bmi' # None) =>
            RLeq(bmi[1].arrangement.total_length,
                 bmi'[1].arrangement.total_length)]_vars

\* C17's case: three tracks are placed and the one that ends last was not
\* placed last
C17_Witness ==
    /\ bmi # None
    /\ Len(bmi[1].arrangement.tracks) = 3
    /\ BmiEnd(2) = bmi[1].arrangement.total_length
    /\ RLt(BmiEnd(1), BmiEnd(2))
    /\ RLt(BmiEnd(3), BmiEnd(2))

\* the time in seconds at which the last element of a placed track ends when
\* its elements are timed at `tempo`: beat_duration = 60 / tempo
\* (engine.rs:382, 562)
LastElementEnd(placed, tempo) ==
    RAdd(placed.start_time,
         RMul(placed.track.length, RNorm(60, tempo)))

\* C29: total_length, which both renderers read as seconds, is at least the
\* time at which the last element of every placed track ends,
\* start_time + length_in_beats * 60 / tempo, at the tempo the realtime
\* synthesizer uses and at the one the offline renderer uses.
C29_TotalLengthCoversTracks ==
    bmi # None =>
        \A i \in DOMAIN bmi[1].arrangement.tracks :
            LET placed == bmi[1].arrangement.tracks[i]
            IN  /\ RLeq(LastElementEnd(placed, RealtimeTempo(placed)),
                        bmi[1].arrangement.total_length)
                /\ RLeq(LastElementEnd(placed, OfflineTempo(placed)),
                        bmi[1].arrangement.total_length)

----------------------------------------------------------------------------
(* Claims about the effects processor *)

\* the processor state and the sample after the effect `name` of the chain,
\* applied to the state and sample s when the chain has it
AfterEffect(name, s, effects) ==
    CASE name = "filter" ->
            IF effects.filter = None THEN s
            ELSE LET r == ApplyFilter(s.p, s.output, effects.filter[1])
                 IN  [p |-> r.p, output |-> r.output]
      [] name = "distortion" ->
            IF effects.distortion = None THEN s
            ELSE LET r == ApplyDistortion(s.p, s.output, effects.distortion[1])
                 IN  [p |-> r.p, output |-> r.output]
      [] name = "delay" ->
            IF effects.delay = None THEN s
            ELSE LET r == ApplyDelay(s.p, s.output, effects.delay[1])
                 IN  [p |-> r.p, output |-> r.output]
      [] name = "reverb" ->
            IF effects.reverb = None THEN s
            ELSE LET r == ApplyReverb(s.p, s.output, effects.reverb[1])
                 IN  [p |-> r.p, output |-> r.output]

\* C18: a call of process applies the effects of the chain in the order
\* filter, distortion, delay, reverb, each on the output of the one before;
\* an absent effect leaves its state as it was, and with all four absent the
\* output is the input and the processor is unchanged.
C18_FixedOrder ==
    [][(fx # None /\ fx' # None /\ Len(fx'[1].output) = Len(fx[1].output) + 1) =>
         LET before == fx[1].p
             after == fx'[1].p
             effects == fx[1].effects
             x == fx'[1].input[Len(fx'[1].input)]
             y == fx'[1].output[Len(fx'[1].output)]
             s == AfterEffect("reverb",
                      AfterEffect("delay",
                          AfterEffect("distortion",
                              AfterEffect("filter", [p |-> before, output |-> x],
                                          effects), effects), effects), effects)
         IN  /\ after = s.p
             /\ y = s.output
             /\ effects.filter = None => after.filter_state = before.filter_state
             /\ effects.distortion = None => after.lowpass_state = before.lowpass_state
             /\ effects.delay = None => after.delay_buffer = before.delay_buffer
             /\ effects.reverb = None =>
                    /\ after.comb_buffers = before.comb_buffers
                    /\ after.comb_filter_state = before.comb_filter_state
                    /\ after.allpass_buffers = before.allpass_buffers
             /\ (effects.filter = None /\ effects.distortion = None
                 /\ effects.delay = None /\ effects.reverb = None) =>
                    y = x /\ after = before]_vars

C18_Witness ==
    /\ fx # None
    /\ fx[1].effects.filter # None /\ fx[1].effects.distortion # None
    /\ fx[1].effects.delay # None /\ fx[1].effects.reverb # None
    /\ Len(fx[1].output) = MaxShort
    /\ fx[1].p.filter_state[1] # Zero /\ fx[1].p.lowpass_state # Zero
    /\ fx[1].p.delay_buffer[1] # Zero /\ fx[1].p.comb_buffers[1][1] # Zero

\* C19: whatever the delay time, the delay line is read at
\* min(floor(time * sr), buflen - 1), an index inside the buffer, the buffer
\* keeps its length of 2 * sr samples, and no call panics.
C19_DelayReadInBuffer ==
    fx # None =>
        LET p == fx[1].p
            len == Len(p.delay_buffer)
        IN  /\ ~fx[1].panicked
            /\ len = 2 * p.sample_rate
            /\ fx[1].read # None =>
                   LET time == fx[1].effects.delay[1].time
                       floor == IF time.n < 0 THEN 0
                                ELSE (time.n * p.sample_rate) \div time.d
                   IN  /\ fx[1].read[1] = Min(floor, len - 1)
                       /\ fx[1].read[1] < len

C19_Witness ==
    /\ fx # None
    /\ fx[1].effects.delay # None
    /\ RLt(R(2, 1), fx[1].effects.delay[1].time)
    /\ Len(fx[1].output) = MaxCalls
    /\ fx[1].read = Some(Len(fx[1].p.delay_buffer) - 1)

RECURSIVE RPow(_, _)
RPow(f, k) == IF k = 0 THEN One ELSE RMul(f, RPow(f, k - 1))

RECURSIVE Echoes(_, _, _, _, _)
\* the sum over k >= j of f^(k-1) * (the input sample k * period before
\* sample n)
Echoes(burst, f, period, n, j) ==
    IF j * period > n THEN Zero
    ELSE RAdd(RMul(RPow(f, j - 1), InputSample(burst, n - j * period)),
              Echoes(burst, f, period, n, j + 1))

\* C20: through a delay alone with wet = 1 the output is the input delayed
\* by k * floor(time * sr) samples for k = 1, 2, 3, ..., the k-th echo
\* scaled by feedback^(k-1).
C20_EchoAtMultiples ==
    (/\ fx # None
     /\ fx[1].effects.filter = None /\ fx[1].effects.distortion = None
     /\ fx[1].effects.reverb = None /\ fx[1].effects.delay # None
     /\ fx[1].effects.delay[1].wet = One
     /\ fx[1].read # None /\ fx[1].read[1] >= 1) =>
        \A n \in 0..(Len(fx[1].output) - 1) :
            fx[1].output[n + 1] =
                Echoes(fx[1].burst, fx[1].effects.delay[1].feedback,
                       fx[1].read[1], n, 1)

----------------------------------------------------------------------------
(* Claims about the envelope generator *)

\* C21: the envelope is the value of the first branch whose condition holds;
\* it is S for every t with A + D <= t <= d - R; and with A = 0 it is 1 at
\* t = 0, whatever D, S and R are.
C21_Envelope ==
    (env # None /\ env[1].value # None) =>
        LET e == env[1]
            i == e.instr
            v == e.value[1]
        IN  /\ (RLeq(RAdd(i.attack, i.decay), e.time)
                /\ RLeq(e.time, RSub(e.duration, i.release))) => v = i.sustain
            /\ (i.attack = Zero /\ e.time = Zero) => v = One

\* the coefficients apply_filter computes from the parameters
\* (effects.rs:167-207)
BiquadCoefficients(sr, params) ==
    LET q == RNorm(params.cutoff.n, params.cutoff.d * sr)
        cos_omega == CosTurn(q)
        alpha == RMul(SinTurn(q), params.resonance)
        half == R(1, 2)
    IN  [b0 |-> CASE params.filter_type = "LowPass" -> RMul(RSub(One, cos_omega), half)
                  [] params.filter_type = "HighPass" -> RMul(RAdd(One, cos_omega), half)
                  [] params.filter_type = "BandPass" -> alpha,
         b1 |-> CASE params.filter_type = "LowPass" -> RSub(One, cos_omega)
                  [] params.filter_type = "HighPass" -> RNeg(RAdd(One, cos_omega))
                  [] params.filter_type = "BandPass" -> Zero,
         b2 |-> CASE params.filter_type = "LowPass" -> RMul(RSub(One, cos_omega), half)
                  [] params.filter_type = "HighPass" -> RMul(RAdd(One, cos_omega), half)
                  [] params.filter_type = "BandPass" -> RNeg(alpha),
         a0 |-> RAdd(One, alpha),
         a1 |-> RMul(R(-2, 1), cos_omega),
         a2 |-> RSub(One, alpha)]

\* sample n of the signal given to process, 0.0 before its first sample
InputAt(n) == IF n >= 1 THEN fx'[1].input[n] ELSE Zero

\* C24: the filter's output is (b0*x + b1*x1 + b2*x2 - a1*y1 - a2*y2) / a0
\* with x1, x2 the two inputs before x and y1, y2 the two outputs before y,
\* and the output history is rotated after each sample.
C24_Biquad ==
    [][(/\ fx # None /\ fx' # None
        /\ fx[1].effects.filter # None
        /\ Len(fx'[1].input) = Len(fx[1].input) + 1) =>
         LET c == BiquadCoefficients(fx[1].p.sample_rate, fx[1].effects.filter[1])
             n == Len(fx'[1].input)
             x == InputAt(n)
             x1 == InputAt(n - 1)
             x2 == InputAt(n - 2)
             y1 == fx[1].p.filter_state[1]
             y2 == fx[1].p.filter_state[2]
             y == RDiv(RSub(RSub(RAdd(RAdd(RMul(c.b0, x), RMul(c.b1, x1)),
                                      RMul(c.b2, x2)),
                                 RMul(c.a1, y1)),
                            RMul(c.a2, y2)),
                       c.a0)
         IN  fx'[1].p.filter_state = <<y, y1>>]_vars

----------------------------------------------------------------------------
(* Claims about the context mutex *)

\* C27: no interleaving of the control calls with the callback deadlocks:
\* while a control call is under way one of the two threads can take a
\* step; the control thread does not hold the mutex while it drops the
\* stream, and it does not hold the mutex when it goes to lock it (as
\* crossfade_to does when it falls back to play_arrangement).
C27_NoDeadlock ==
    th # None =>
        /\ th[1].pc # "idle" => ENABLED NextThreads
        /\ th[1].pc = "stop_drop" => th[1].mutex # "control"
        /\ th[1].pc \in {"stop_lock", "play_lock", "xf_lock", "set_lock"} =>
               th[1].mutex # "control"

\* play_arrangement on a playing engine is about to drop the stream while a
\* callback waits for the mutex
C27_Witness ==
    /\ th # None
    /\ th[1].op = "play_arrangement"
    /\ th[1].pc = "stop_drop"
    /\ th[1].stream
    /\ th[1].context
    /\ th[1].cb = "lock"

----------------------------------------------------------------------------
(* Claims about the gain of a track *)

\* C30: for the same instrument volume, volume override and track volume,
\* the offline renderer and the realtime synthesizer give a note of the
\* track the same gain.
C30_SameGain ==
    (gain # None /\ gain[1].offline # None /\ gain[1].realtime # None) =>
        gain[1].offline = gain[1].realtime

====
